---- MODULE Spec2Model ----
(***************************************************************************)
(* The JIT native-code cache of runtime/jit/jit_code_cache.cc together     *)
(* with its callers JitCompiler::CompileMethod and                         *)
(* OptimizingCompiler::JitCompile.                                         *)
(*                                                                         *)
(* Every critical section of lock_ is one action (the lock serialises      *)
(* them); everything a thread does without the lock (entering and leaving  *)
(* compiled code, the already-compiled check, the stack walk of a          *)
(* checkpoint) is an action of its own.  A thread whose next critical      *)
(* section starts with WaitForPotentialCollectionToComplete is blocked     *)
(* exactly while collection_in_progress_ is true.                          *)
(***************************************************************************)
EXTENDS Integers, Sequences, FiniteSets, TLC

\* ------------------------------------------------------------------ bounds
NumThreads == 2
NumMethods == 2
MaxOps == 4
\* The calls started in a behaviour that shows the critical sections in steps.
MaxSectionOps == 3
MinCapacityPages == 2
MaxCapacityPages == 4

\* ------------------------------------------------------- program constants
kPageSize == 4096
MB == 1048576
GB == 1073741824
NULL == 0
\* GetQuickToInterpreterBridge(): an address outside the code region.
Bridge == 8
\* data_map->Begin(), the address MemMap::MapAnonymous returns.
DataMapBegin == 65536
\* RoundUp(sizeof(OatQuickMethodHeader), alignment)
HeaderSize == 32

Threads == 1..NumThreads
Methods == 1..NumMethods

\* A RoundDown that leaves its argument as it is.
RoundDown_Identity(x, n) == x

RoundDown(x, n) == x - (x % n)
RoundUp(x, n) == RoundDown(x + n - 1, n)
Max(a, b) == IF a > b THEN a ELSE b

\* The arguments of JitCodeCache::Create.
MaxCapacityArg == MaxCapacityPages * kPageSize
InitialCapacityArgs == {MinCapacityPages * kPageSize, MaxCapacityPages * kPageSize}

\* JitCodeCache::Create: whether a cache is created and, if so, the
\* arguments handed to the constructor.
Create(initial_capacity, max_capacity) ==
  IF max_capacity > 1 * GB THEN [created |-> FALSE]
  ELSE LET initial == RoundDown(initial_capacity, 2 * kPageSize)
           maxc == RoundDown(max_capacity, 2 * kPageSize)
           data_size == initial \div 2
           code_size == initial - data_size
       IN [created |-> TRUE,
           divider |-> DataMapBegin + (maxc \div 2),
           code_size |-> code_size,
           data_size |-> data_size,
           max_capacity |-> maxc]

\* code_map_->Begin(): the divider computed by Create.
CodeMapBegin == Create(MaxCapacityArg, MaxCapacityArg).divider
\* code_map_->End()
CodeMapEnd == CodeMapBegin + Create(MaxCapacityArg, MaxCapacityArg).max_capacity
                           - (Create(MaxCapacityArg, MaxCapacityArg).max_capacity \div 2)

\* The sizes of the blocks the callers ask for: one compiled method
\* (header plus code), one stack-map blob, one ProfilingInfo.
CodeSize == kPageSize - HeaderSize
TotalSize == HeaderSize + CodeSize
DataSize == RoundUp(kPageSize \div 2, 8)

ContainsPc(ptr) == CodeMapBegin <= ptr /\ ptr < CodeMapEnd

FromCodeToAllocation(code) == code - HeaderSize

VARIABLES
  collection_in_progress_,
  max_capacity_,
  current_capacity_,
  code_end_,
  data_end_,
  code_footprint_limit,
  data_footprint_limit,
  has_done_one_collection_,
  code_mspace_,
  data_mspace_,
  headers,
  method_code_map_,
  profiling_infos_,
  info_method,
  live_bitmap_,
  entry_point,
  profiling_info,
  unloaded,
  crashed,
  faults,
  pc,
  ret,
  method,
  stack_map_data,
  code_ptr,
  result,
  retry_allocation,
  stack,
  checkpoint_pending,
  attempts,
  gc_calls,
  ops,
  cycle,
  returned_info,
  last_update_time_ns_,
  fine,
  lock_,
  phase,
  prot,
  scope_depth,
  mprotects,
  pure_call

cacheVars == <<collection_in_progress_, max_capacity_, current_capacity_, code_end_,
               data_end_, code_footprint_limit, data_footprint_limit,
               has_done_one_collection_, code_mspace_, data_mspace_, headers,
               method_code_map_, profiling_infos_, info_method, live_bitmap_>>
methodVars == <<entry_point, profiling_info, unloaded>>
threadVars == <<pc, ret, method, stack_map_data, code_ptr, result, retry_allocation,
                stack, checkpoint_pending, attempts, gc_calls>>
\* The critical sections in steps: whether the behaviour shows them (fine),
\* the holder of lock_, each thread's place in its critical section, the
\* protection of the code region, the ScopedCodeCacheWrite scopes a thread is
\* in and the times it widened the protection in its critical section.
sectionVars == <<fine, lock_, phase, prot, scope_depth, mprotects>>
vars == <<cacheVars, methodVars, threadVars, crashed, faults, ops, cycle, returned_info,
          last_update_time_ns_,
          sectionVars, pure_call>>


\* ---------------------------------------------------------------- helpers
SetMin(S) == CHOOSE x \in S : \A y \in S : x <= y

\* The keys of a std::map in iteration (ascending) order.
RECURSIVE SortedSeq(_)
SortedSeq(S) == IF S = {} THEN <<>> ELSE <<SetMin(S)>> \o SortedSeq(S \ {SetMin(S)})

Range(s) == {s[i] : i \in 1..Len(s)}

\* ------------------------------------------------------- region allocator
\* The blocks a sub-region of the given footprint limit can hold.
Slots(base, limit, size) == {base + k * size : k \in 0..((limit \div size) - 1)}

\* mspace_malloc / mspace_memalign: first fit within the footprint limit,
\* NULL when the request cannot be satisfied.
mspace_malloc(space, base, limit, size) ==
  LET free == Slots(base, limit, size) \ space
  IN IF free = {} THEN NULL ELSE SetMin(free)

\* JitCodeCache::MoreCore: the new end of a sub-region after the mspace
\* asked for the bytes an allocation at addr needs beyond the current end.
MoreCore(end, base, addr, size) ==
  LET increment == Max(0, (addr + size - base) - end)
  IN end + increment

\* mspace_free: releasing a block that is not allocated is undefined.
mspace_free(space, ptr) == space \ {ptr}

\* A SetFootprintLimit that gives each sub-region the whole footprint.
SetFootprintLimit_Whole(new_footprint) == new_footprint

\* JitCodeCache::SetFootprintLimit: the footprint of each sub-region.
SetFootprintLimit(new_footprint) == new_footprint \div 2

\* The two DCHECKs of JitCodeCache::SetFootprintLimit.
SetFootprintLimit_DCHECKs(new_footprint) ==
  LET per_space_footprint == new_footprint \div 2 IN
  /\ per_space_footprint % kPageSize = 0
  /\ per_space_footprint * 2 = new_footprint

\* JitCodeCache::IncreaseCodeCacheCapacity: what the call returns.
IncreaseCodeCacheCapacity_Returns(current, maxc) == current # maxc

\* An IncreaseCodeCacheCapacity that does not clamp to max_capacity_.
IncreaseCodeCacheCapacity_Unclamped(current, maxc) ==
  IF current = maxc THEN current
  ELSE IF current < 1 * MB THEN current * 2 ELSE current + 1 * MB

\* JitCodeCache::IncreaseCodeCacheCapacity: the new current_capacity_
\* (unchanged when the call returns false).
IncreaseCodeCacheCapacity(current, maxc) ==
  IF current = maxc THEN current
  ELSE LET grown == IF current < 1 * MB THEN current * 2 ELSE current + 1 * MB
       IN IF grown > maxc THEN maxc ELSE grown

\* A header constructed without the tests for nullptr.
OatQuickMethodHeader_NoNullTest(code, mapping_table, vmap_table, gc_map) ==
  [mapping_table_offset_ |-> code - mapping_table,
   vmap_table_offset_ |-> code - vmap_table,
   gc_map_offset_ |-> code - gc_map]

\* OatQuickMethodHeader as CommitCodeInternal constructs it.
OatQuickMethodHeader(code, mapping_table, vmap_table, gc_map) ==
  [mapping_table_offset_ |-> IF mapping_table = NULL THEN 0 ELSE code - mapping_table,
   vmap_table_offset_ |-> IF vmap_table = NULL THEN 0 ELSE code - vmap_table,
   gc_map_offset_ |-> IF gc_map = NULL THEN 0 ELSE code - gc_map]

\* A FreeCode that forgets the vmap table (where JitCompile puts the stack maps).
FreeCodeData_NoVmap(code, header) ==
  (IF header.gc_map_offset_ # 0 THEN {code - header.gc_map_offset_} ELSE {})
  \cup (IF header.mapping_table_offset_ # 0 THEN {code - header.mapping_table_offset_} ELSE {})

\* The data blocks JitCodeCache::FreeCode releases for one compiled entry.
FreeCodeData(code, header) ==
  (IF header.gc_map_offset_ # 0 THEN {code - header.gc_map_offset_} ELSE {})
  \cup (IF header.mapping_table_offset_ # 0 THEN {code - header.mapping_table_offset_} ELSE {})
  \cup (IF header.vmap_table_offset_ # 0 THEN {code - header.vmap_table_offset_} ELSE {})

\* live_bitmap_: a null pointer, or a CodeCacheBitmap with the set of the
\* allocation addresses whose bit is set.
NoBitmap == [allocated |-> FALSE, bits |-> {}]
CodeCacheBitmap(bits) == [allocated |-> TRUE, bits |-> bits]

\* MarkCodeVisitor::VisitFrame over a whole stack: the codes it marks.
WalkStack(t) == {c \in stack[t] : ContainsPc(c)}

\* A visitor that sets the bit of the code address, not of the allocation.
MarkAll_CodeAddress(bitmap, codes) == [bitmap EXCEPT !.bits = @ \cup codes]

\* Bitmap::AtomicTestAndSet for every code of the set.
MarkAll(bitmap, codes) ==
  [bitmap EXCEPT !.bits = @ \cup {FromCodeToAllocation(c) : c \in codes}]

\* Bitmap::Test
Test(bitmap, allocation) == allocation \in bitmap.bits

\* A lookup that never finds the record another call attached.
GetProfilingInfo_Null(m) == NULL

\* ArtMethod::GetProfilingInfo
GetProfilingInfo(m) == profiling_info[m]

\* ------------------------------------------------------------------- Init
\* returned_info[m] is what the latest call of AddProfilingInfo for m returned,
\* NoCall when there was none since the last sweeping collection and since m
\* was removed.
NoCall == -1

\* The record of the collection cycles: the kinds of the cycles so far in
\* log, and of the latest cycle its kind, the codes its stack walks reported
\* (walked), the codes published during it (published) and those of them
\* whose bit the publication set (committed), the bitmap as the sweep
\* examined it (examined), the map's keys before the sweep (before) and the
\* codes the sweep freed (freed), and the methods RemoveMethodsIn removed
\* between the reset and the sweep of the cycle (removed), and the end of the
\* range the cycle's bitmap was created with (heap_limit).
NoCycle == [log |-> <<>>, kind |-> "none", done |-> TRUE, walked |-> {}, committed |-> {},
            published |-> {}, examined |-> {}, before |-> {}, freed |-> {}, removed |-> {},
            heap_limit |-> NULL]

\* The protections of the code region.
kProtCode == "RX"
kProtAll == "RWX"

\* No thread is in a critical section; the constructor has set the code
\* region to kProtCode.
SectionInit ==
  /\ lock_ = NULL
  /\ phase = [t \in Threads |-> "out"]
  /\ prot = kProtCode
  /\ scope_depth = [t \in Threads |-> 0]
  /\ mprotects = [t \in Threads |-> 0]

\* pure_call is the latest call of a function that is checked by itself
\* (JitCodeCache::Create, LookupMethodHeader): its arguments and what it
\* returned.
NoPureCall == [op |-> "none"]

\* The fields the constructor computes from the arguments of Create.
CapacityInit(initial) ==
  LET c == Create(initial, MaxCapacityArg) IN
  /\ c.created
  /\ max_capacity_ = c.max_capacity
  /\ current_capacity_ = c.code_size + c.data_size
  /\ code_end_ = c.code_size
  /\ data_end_ = c.data_size
  /\ code_footprint_limit = SetFootprintLimit(c.code_size + c.data_size)
  /\ data_footprint_limit = SetFootprintLimit(c.code_size + c.data_size)

\* No compiled code yet.
NoCodeInit ==
  /\ code_mspace_ = {}
  /\ headers = [c0 \in {} |-> NULL]
  /\ method_code_map_ = [c0 \in {} |-> NULL]
  /\ entry_point = [m \in Methods |-> Bridge]

\* The other fields after construction; no thread is in a call.
RestInit ==
  /\ collection_in_progress_ = FALSE
  /\ has_done_one_collection_ = FALSE
  /\ data_mspace_ = {}
  /\ profiling_infos_ = <<>>
  /\ info_method = [d0 \in {} |-> NULL]
  /\ live_bitmap_ = NoBitmap
  /\ profiling_info = [m \in Methods |-> NULL]
  /\ unloaded = {}
  /\ crashed = FALSE
  /\ faults = {}
  /\ pc = [t \in Threads |-> "idle"]
  /\ ret = [t \in Threads |-> "idle"]
  /\ method = [t \in Threads |-> NULL]
  /\ stack_map_data = [t \in Threads |-> NULL]
  /\ code_ptr = [t \in Threads |-> NULL]
  /\ result = [t \in Threads |-> NULL]
  /\ retry_allocation = [t \in Threads |-> FALSE]
  /\ stack = [t \in Threads |-> {}]
  /\ checkpoint_pending = {}
  /\ attempts = [t \in Threads |-> 0]
  /\ gc_calls = [t \in Threads |-> 0]
  /\ ops = 0
  /\ cycle = NoCycle
  /\ returned_info = [m \in Methods |-> NoCall]
  /\ last_update_time_ns_ = 0

Init ==
  \E initial \in InitialCapacityArgs :
    /\ CapacityInit(initial)
    /\ NoCodeInit
    /\ RestInit
    /\ SectionInit
    /\ fine = FALSE
    /\ pure_call = NoPureCall


\* ----------------------------------------------------- groups of variables
capVars == <<max_capacity_, current_capacity_, code_footprint_limit, data_footprint_limit,
             has_done_one_collection_>>
codeVars == <<code_mspace_, code_end_, headers, method_code_map_>>
dataVars == <<data_mspace_, data_end_>>
profVars == <<profiling_infos_, info_method, profiling_info>>
localVars == <<method, stack_map_data, code_ptr, retry_allocation>>

\* The method that owns a frame's code, NULL when the code is not in the map.
FrameMethod(code) == IF code \in DOMAIN method_code_map_ THEN method_code_map_[code] ELSE NULL

\* A thread is counted by RunCheckpoint as running the closure itself when it
\* is in the runnable state; every other thread is suspended (or runs the
\* closure on its way into the suspended state, before it blocks).
Runnable(t) == pc[t] \in {"idle", "pub", "clear"}

\* A growth shortcut that does not ask whether a collection was done before.
Grows_FirstCycle(has_done, current, maxc) ==
  IncreaseCodeCacheCapacity(current, maxc) # current

\* Whether the cycle takes the growth shortcut:
\* has_done_one_collection_ && IncreaseCodeCacheCapacity().
Grows(has_done, current, maxc) ==
  has_done /\ IncreaseCodeCacheCapacity(current, maxc) # current

\* ------------------------------------------------------ critical sections
\* Whether the critical section a thread runs at the given position takes
\* lock_ (every one does: MutexLock mu(self, lock_)).
LockedSection_PublishUnlocked(at) == at # "pub"

LockedSection_DecideUnlocked(at) == at # "gc_decide"

LockedSection(at) == TRUE

\* The critical sections that start with WaitForPotentialCollectionToComplete
\* (gc_wait: the section of GarbageCollectCache that found a collection).
NeedsWait(t) == pc[t] \in {"rd1", "rd2", "cc1", "cc2", "pi1", "pi2", "gc_wait"}

\* The critical sections that open a ScopedCodeCacheWrite: the allocation of
\* CommitCodeInternal, RemoveMethodsIn (run by a thread that is in no other
\* call), the sweep, and SetFootprintLimit when the cycle grows the capacity.
NeedsScope(t) ==
  \/ pc[t] \in {"cc1", "cc2", "gc_sweep", "idle"}
  \/ pc[t] = "gc_decide" /\ Grows(has_done_one_collection_, current_capacity_, max_capacity_)

\* Where a thread is in its critical section when the section's body runs:
\* inside the scope if there is one; the publication of a commit has put its
\* entry in the map by then.
BodyReady(t) ==
  IF NeedsScope(t) THEN "scoped" ELSE IF pc[t] = "pub" THEN "put" ELSE "locked"

\* The body of a critical section: in a behaviour that shows the sections
\* it runs where BodyReady says, and the section goes on to its exit.
InSection(t) ==
  /\ fine => phase[t] = BodyReady(t)
  /\ phase' = IF fine THEN [phase EXCEPT ![t] = IF NeedsScope(t) THEN "written" ELSE "done"]
                      ELSE phase
  /\ UNCHANGED <<fine, lock_, prot, scope_depth, mprotects, pure_call>>

\* A step outside every critical section.
OutOfSection(t) ==
  /\ fine => phase[t] \in {"out", "waiting"}
  /\ UNCHANGED <<sectionVars, pure_call>>

\* RemoveMethodsIn comes with classlinker_classes_lock_ held: the LinearAlloc
\* it unloads is unused from the call to its return.  In a behaviour that
\* shows the critical sections, no thread starts to use a method while
\* another is in the critical section of RemoveMethodsIn and has not yet
\* removed the methods.
Unloading ==
  fine /\ \E v \in DOMAIN pc : pc[v] = "idle" /\ phase[v] \in {"locked", "scoped"}

\* A LinearAlloc is unloaded only when nothing uses its methods: no frame of
\* their code is on a stack and no thread is compiling or profiling them.
Unused(alloc) ==
  /\ \A u \in Threads : \A c \in stack[u] : FrameMethod(c) \notin alloc
  /\ \A u \in Threads : pc[u] # "idle" => method[u] \notin alloc

\* A LinearAlloc that can be unloaded: its methods are loaded and unused.
Unloadable(alloc) == alloc # {} /\ alloc \cap unloaded = {} /\ Unused(alloc)

\* ----------------------------------------------------- managed code runs
\* A thread calls method m through its entry point and gets a frame of the
\* compiled code when the entry point is in the cache.
Enter(t, m) ==
  /\ pc[t] = "idle"
  /\ ~Unloading
  /\ m \notin unloaded
  /\ ContainsPc(entry_point[m])
  /\ entry_point[m] \notin stack[t]
  /\ stack' = [stack EXCEPT ![t] = @ \cup {entry_point[m]}]
  /\ UNCHANGED <<cacheVars, methodVars, pc, ret, localVars, result, checkpoint_pending,
                 attempts, gc_calls, crashed, faults, ops, cycle>>
  /\ UNCHANGED <<returned_info, last_update_time_ns_>>
  /\ OutOfSection(t)

\* A frame returns.
Leave(t, code) ==
  /\ pc[t] = "idle"
  /\ code \in stack[t]
  /\ ContainsPc(code)
  /\ stack' = [stack EXCEPT ![t] = @ \ {code}]
  /\ UNCHANGED <<cacheVars, methodVars, pc, ret, localVars, result, checkpoint_pending,
                 attempts, gc_calls, crashed, faults, ops, cycle>>
  /\ UNCHANGED <<returned_info, last_update_time_ns_>>
  /\ OutOfSection(t)

\* The locals of a thread whose cache call has returned.
Returned(f, t) == [f EXCEPT ![t] = NULL]

\* A wait that returns at once.
WaitForPotentialCollectionToComplete_NoWait == TRUE

\* WaitForPotentialCollectionToComplete returns (with lock_ held) only when
\* no collection is in progress.
WaitForPotentialCollectionToComplete == ~collection_in_progress_

\* A wait that never reports a collection.
InCollection_Never(in_progress) == FALSE

\* What WaitForPotentialCollectionToComplete returns: whether it found a
\* collection in progress (and so waited for it).
InCollection(in_progress) == in_progress

\* A retry that collects again after every failed attempt.
CollectsAndRetries_Always(at) == TRUE

\* CommitCode, ReserveData and AddProfilingInfo call GarbageCollectCache and
\* try again only after their first attempt (at a pc ending in 1) failed.
CollectsAndRetries(at) == at \in {"rd1", "cc1", "pi1"}

\* The calls a behaviour may start: MaxOps, or MaxSectionOps when it shows the
\* critical sections in steps.
OpsBound == IF fine THEN MaxSectionOps ELSE MaxOps

\* A thread in no call may start one (a thread that has entered the critical
\* section of its call has started it).
CanStart(t) ==
  /\ pc[t] = "idle"
  /\ phase[t] = "out" => ops < OpsBound /\ t \notin checkpoint_pending

\* --------------------------------------------- JitCompiler::CompileMethod
\* The already-compiled check, then OptimizingCompiler::JitCompile up to its
\* call of ReserveData.
CompileMethod(t, m) ==
  /\ CanStart(t)
  /\ ~Unloading
  /\ m \notin unloaded
  /\ ops' = ops + 1
  /\ IF ContainsPc(entry_point[m])
       THEN /\ result' = [result EXCEPT ![t] = 1]
            /\ UNCHANGED <<pc, method, attempts, gc_calls>>
       ELSE /\ pc' = [pc EXCEPT ![t] = "rd1"]
            /\ method' = [method EXCEPT ![t] = m]
            /\ attempts' = [attempts EXCEPT ![t] = 0]
            /\ gc_calls' = [gc_calls EXCEPT ![t] = 0]
            /\ UNCHANGED result
  /\ UNCHANGED <<cacheVars, methodVars, ret, stack_map_data, code_ptr, retry_allocation,
                 stack, checkpoint_pending, crashed, faults, cycle>>
  /\ UNCHANGED <<returned_info, last_update_time_ns_>>
  /\ OutOfSection(t)

\* ------------------------------------------------ JitCodeCache::ReserveData
\* One allocation attempt of ReserveData (the first at "rd1", the retry at
\* "rd2"), in its critical section, and what ReserveData and JitCompile do
\* with the outcome.  attempts and gc_calls count the allocation attempts and
\* the calls of GarbageCollectCache of the cache call in progress; they start
\* at zero again when JitCompile goes on to call CommitCode.
ReserveData(t) ==
  /\ pc[t] \in {"rd1", "rd2"}
  /\ WaitForPotentialCollectionToComplete
  /\ LET r == mspace_malloc(data_mspace_, DataMapBegin, data_footprint_limit, DataSize) IN
     /\ attempts' = [attempts EXCEPT ![t] = IF r # NULL THEN 0 ELSE @ + 1]
     /\ IF r # NULL
          THEN /\ data_mspace_' = data_mspace_ \cup {r}
               /\ data_end_' = MoreCore(data_end_, DataMapBegin, r, DataSize)
               /\ stack_map_data' = [stack_map_data EXCEPT ![t] = r]
               /\ pc' = [pc EXCEPT ![t] = "cc1"]
               /\ UNCHANGED <<ret, result, method>>
          ELSE /\ UNCHANGED <<dataVars, stack_map_data>>
               /\ IF CollectsAndRetries(pc[t])
                    THEN /\ pc' = [pc EXCEPT ![t] = "gc_start"]
                         /\ ret' = [ret EXCEPT ![t] = "rd2"]
                         /\ UNCHANGED <<result, method>>
                    ELSE /\ pc' = [pc EXCEPT ![t] = "idle"]
                         /\ result' = [result EXCEPT ![t] = 0]
                         /\ method' = Returned(method, t)
                         /\ UNCHANGED ret
     /\ gc_calls' = [gc_calls EXCEPT ![t] = IF r # NULL THEN 0
                                             ELSE IF CollectsAndRetries(pc[t]) THEN @ + 1 ELSE @]
  /\ UNCHANGED <<collection_in_progress_, capVars, codeVars, profVars, live_bitmap_,
                 entry_point, unloaded, code_ptr, retry_allocation, stack,
                 checkpoint_pending, crashed, faults, ops, cycle>>
  /\ UNCHANGED <<returned_info, last_update_time_ns_>>
  /\ InSection(t)


\* ------------------------------------------------- JitCodeCache::CommitCode
\* A failed commit that frees the table the caller passed in.
ReturnNull_FreesData(space, data) == mspace_free(space, data)

\* if (result == nullptr) return nullptr: the data mspace after the return.
\* The tables the caller passed in stay allocated.
ReturnNull(space, data) == space

\* The first critical section of CommitCodeInternal (the first call at
\* "cc1", the retry at "cc2"): the code allocation and the method header.
CommitCodeInternal(t) ==
  /\ pc[t] \in {"cc1", "cc2"}
  /\ WaitForPotentialCollectionToComplete
  /\ LET r == mspace_malloc(code_mspace_, CodeMapBegin, code_footprint_limit, TotalSize)
         code == r + HeaderSize
     IN
     /\ attempts' = [attempts EXCEPT ![t] = @ + 1]
     /\ IF r # NULL
          THEN /\ code_mspace_' = code_mspace_ \cup {r}
               /\ code_end_' = MoreCore(code_end_, CodeMapBegin, r, TotalSize)
               /\ headers' = [c \in DOMAIN headers \cup {code} |->
                                IF c = code
                                  THEN OatQuickMethodHeader(code, NULL, stack_map_data[t], NULL)
                                  ELSE headers[c]]
               /\ code_ptr' = [code_ptr EXCEPT ![t] = code]
               /\ pc' = [pc EXCEPT ![t] = "pub"]
               /\ UNCHANGED <<ret, gc_calls, data_mspace_>>
          ELSE /\ UNCHANGED <<code_mspace_, code_end_, headers, code_ptr>>
               /\ data_mspace_' = ReturnNull(data_mspace_, stack_map_data[t])
               /\ IF CollectsAndRetries(pc[t])
                    THEN /\ pc' = [pc EXCEPT ![t] = "gc_start"]
                         /\ ret' = [ret EXCEPT ![t] = "cc2"]
                         /\ gc_calls' = [gc_calls EXCEPT ![t] = @ + 1]
                    ELSE /\ pc' = [pc EXCEPT ![t] = "clear"]
                         /\ UNCHANGED <<ret, gc_calls>>
  /\ UNCHANGED <<collection_in_progress_, capVars, method_code_map_, data_end_, profVars,
                 live_bitmap_, entry_point, unloaded, method, stack_map_data,
                 retry_allocation, result, stack, checkpoint_pending, crashed,
                 faults, ops, cycle>>
  /\ UNCHANGED <<returned_info, last_update_time_ns_>>
  /\ InSection(t)

\* NanoTime(): a reading of the monotonic clock later than the time of the
\* update before.
NanoTime(last) == last + 1

\* The second critical section of CommitCodeInternal: the entry is put in
\* method_code_map_, the method's entry point becomes the new code and, if a
\* collection is in progress, the code is marked in the live bitmap.  With
\* collection_in_progress_ set and no bitmap allocated yet the marking
\* dereferences a null pointer: the process dies (no thread takes another
\* step), or the store is lost.
Publish(t) ==
  /\ pc[t] = "pub"
  /\ \E dies \in BOOLEAN :
     LET code == code_ptr[t]
         null_bitmap == collection_in_progress_ /\ ~live_bitmap_.allocated
     IN
     /\ dies => null_bitmap
     /\ method_code_map_' =
          IF code \in DOMAIN method_code_map_ THEN method_code_map_
          ELSE [c \in DOMAIN method_code_map_ \cup {code} |->
                  IF c = code THEN method[t] ELSE method_code_map_[c]]
     /\ entry_point' = [entry_point EXCEPT ![method[t]] = code]
     /\ IF collection_in_progress_
          THEN IF ~live_bitmap_.allocated
                 THEN /\ crashed' = dies
                      /\ cycle' = [cycle EXCEPT !.published = @ \cup {code}]
                      /\ UNCHANGED live_bitmap_
                 ELSE /\ live_bitmap_' = MarkAll(live_bitmap_, {code})
                      /\ cycle' = [cycle EXCEPT !.committed = @ \cup {code},
                                                !.published = @ \cup {code}]
                      /\ UNCHANGED crashed
          ELSE UNCHANGED <<live_bitmap_, cycle, crashed>>
     /\ result' = [result EXCEPT ![t] = 1]
     /\ pc' = IF dies THEN [u \in Threads |-> "dead"] ELSE [pc EXCEPT ![t] = "idle"]
     /\ method' = Returned(method, t)
     /\ stack_map_data' = Returned(stack_map_data, t)
     /\ code_ptr' = Returned(code_ptr, t)
     /\ last_update_time_ns_' = IF dies THEN last_update_time_ns_
                                        ELSE NanoTime(last_update_time_ns_)
  /\ UNCHANGED <<collection_in_progress_, capVars, code_mspace_, code_end_, headers,
                 dataVars, profVars, unloaded, ret, retry_allocation, stack, checkpoint_pending,
                 attempts, gc_calls, faults, ops>>
  /\ UNCHANGED returned_info
  /\ InSection(t)

\* A ClearData that does not release the block.
ClearDataFree_Leaks(space, data) == space

\* The body of JitCodeCache::ClearData.
ClearDataFree(space, data) == mspace_free(space, data)

\* JitCodeCache::ClearData, called by JitCompile when CommitCode returned
\* null; JitCompile then returns false.
ClearData(t) ==
  /\ pc[t] = "clear"
  /\ data_mspace_' = ClearDataFree(data_mspace_, stack_map_data[t])
  /\ faults' = faults \cup (IF stack_map_data[t] \notin data_mspace_ THEN {"invalid_free"} ELSE {})
  /\ result' = [result EXCEPT ![t] = 0]
  /\ pc' = [pc EXCEPT ![t] = "idle"]
  /\ method' = Returned(method, t)
  /\ stack_map_data' = Returned(stack_map_data, t)
  /\ UNCHANGED <<collection_in_progress_, capVars, codeVars, data_end_, profVars,
                 live_bitmap_, entry_point, unloaded, ret, code_ptr, retry_allocation, stack,
                 checkpoint_pending, attempts, gc_calls, crashed, ops, cycle>>
  /\ UNCHANGED <<returned_info, last_update_time_ns_>>
  /\ InSection(t)

\* -------------------------------------------- JitCodeCache::AddProfilingInfo
AddProfilingInfo(t, m, retry) ==
  /\ CanStart(t)
  /\ ~Unloading
  /\ m \notin unloaded
  /\ ops' = ops + 1
  /\ pc' = [pc EXCEPT ![t] = "pi1"]
  /\ method' = [method EXCEPT ![t] = m]
  /\ retry_allocation' = [retry_allocation EXCEPT ![t] = retry]
  /\ attempts' = [attempts EXCEPT ![t] = 0]
  /\ gc_calls' = [gc_calls EXCEPT ![t] = 0]
  /\ UNCHANGED <<cacheVars, methodVars, ret, stack_map_data, code_ptr, result, stack,
                 checkpoint_pending, crashed, faults, cycle>>
  /\ UNCHANGED <<returned_info, last_update_time_ns_>>
  /\ OutOfSection(t)

\* An AddProfilingInfo that retries whatever the caller asked for.
ShouldRetry_Always(info, retry) == TRUE

\* if (info == nullptr && retry_allocation)
ShouldRetry(info, retry) == info = NULL /\ retry

\* AddProfilingInfoInternal (the first call at "pi1", the retry at "pi2") and
\* what AddProfilingInfo does with its result.
AddProfilingInfoInternal(t) ==
  /\ pc[t] \in {"pi1", "pi2"}
  /\ WaitForPotentialCollectionToComplete
  /\ LET m == method[t]
         info == GetProfilingInfo(m)
         data == mspace_malloc(data_mspace_, DataMapBegin, data_footprint_limit, DataSize)
     IN
     IF info # NULL
       THEN /\ result' = [result EXCEPT ![t] = info]
            /\ pc' = [pc EXCEPT ![t] = "idle"]
            /\ method' = Returned(method, t)
            /\ UNCHANGED <<dataVars, profVars, ret, attempts, gc_calls>>
       ELSE /\ attempts' = [attempts EXCEPT ![t] = @ + 1]
            /\ IF data = NULL
                 THEN /\ UNCHANGED <<dataVars, profVars>>
                      /\ IF CollectsAndRetries(pc[t]) /\ ShouldRetry(NULL, retry_allocation[t])
                           THEN /\ pc' = [pc EXCEPT ![t] = "gc_start"]
                                /\ ret' = [ret EXCEPT ![t] = "pi2"]
                                /\ gc_calls' = [gc_calls EXCEPT ![t] = @ + 1]
                                /\ UNCHANGED <<result, method>>
                           ELSE /\ pc' = [pc EXCEPT ![t] = "idle"]
                                /\ result' = [result EXCEPT ![t] = NULL]
                                /\ method' = Returned(method, t)
                                /\ UNCHANGED <<ret, gc_calls>>
                 ELSE /\ data_mspace_' = data_mspace_ \cup {data}
                      /\ data_end_' = MoreCore(data_end_, DataMapBegin, data, DataSize)
                      /\ info_method' = [d \in DOMAIN info_method \cup {data} |->
                                           IF d = data THEN m ELSE info_method[d]]
                      /\ profiling_info' = [profiling_info EXCEPT ![m] = data]
                      /\ profiling_infos_' = Append(profiling_infos_, data)
                      /\ result' = [result EXCEPT ![t] = data]
                      /\ pc' = [pc EXCEPT ![t] = "idle"]
                      /\ method' = Returned(method, t)
                      /\ UNCHANGED <<ret, gc_calls>>
  /\ retry_allocation' = [retry_allocation EXCEPT ![t] = (pc'[t] # "idle") /\ @]
  /\ UNCHANGED last_update_time_ns_
  /\ returned_info' = IF pc'[t] = "idle"
                        THEN [returned_info EXCEPT ![method[t]] = result'[t]]
                        ELSE returned_info
  /\ UNCHANGED <<collection_in_progress_, capVars, codeVars, live_bitmap_, entry_point,
                 unloaded, stack_map_data, code_ptr, stack,
                 checkpoint_pending, crashed, faults,
                 ops, cycle>>
  /\ InSection(t)


\* ------------------------------------------------------- freeing entries
\* A FreeCode that releases the data of an entry and not its code.
RECURSIVE FreedBlocks_DataOnly(_)
FreedBlocks_DataOnly(codes) ==
  IF Len(codes) = 0 THEN <<>>
  ELSE SortedSeq(FreeCodeData(Head(codes), headers[Head(codes)]))
       \o FreedBlocks_DataOnly(Tail(codes))

\* The sequence of blocks JitCodeCache::FreeCode hands to mspace_free for the
\* given codes, taken in map order.
RECURSIVE FreedBlocks(_)
FreedBlocks(codes) ==
  IF Len(codes) = 0 THEN <<>>
  ELSE SortedSeq(FreeCodeData(Head(codes), headers[Head(codes)]))
       \o <<FromCodeToAllocation(Head(codes))>> \o FreedBlocks(Tail(codes))

\* A sequence of calls of mspace_free is valid when every block is allocated
\* when it is freed.
ValidFrees(blocks) ==
  /\ \A i \in 1..Len(blocks) : blocks[i] \in (code_mspace_ \cup data_mspace_)
  /\ \A i, j \in 1..Len(blocks) : i # j => blocks[i] # blocks[j]

\* -------------------------------------------- JitCodeCache::RemoveMethodsIn
\* An unloading that takes every method for a method of the LinearAlloc.
ContainsUnsafe_Any(alloc, m) == TRUE

\* LinearAlloc::ContainsUnsafe
ContainsUnsafe(alloc, m) == m \in alloc

RemoveMethodsIn(t, alloc) ==
  /\ CanStart(t)
  /\ Unloadable(alloc)
  /\ ops' = ops + 1
  /\ LET codes == {c \in DOMAIN method_code_map_ : ContainsUnsafe(alloc, method_code_map_[c])}
         infos == SelectSeq(profiling_infos_, LAMBDA i : ContainsUnsafe(alloc, info_method[i]))
         blocks == FreedBlocks(SortedSeq(codes)) \o infos
     IN
     /\ code_mspace_' = code_mspace_ \ Range(blocks)
     /\ data_mspace_' = data_mspace_ \ Range(blocks)
     /\ headers' = [c \in DOMAIN headers \ codes |-> headers[c]]
     /\ method_code_map_' = [c \in DOMAIN method_code_map_ \ codes |-> method_code_map_[c]]
     /\ profiling_info' = [m \in Methods |->
                             IF \E i \in Range(infos) : info_method[i] = m
                               THEN NULL ELSE profiling_info[m]]
     /\ profiling_infos_' = SelectSeq(profiling_infos_, LAMBDA i : ~ContainsUnsafe(alloc, info_method[i]))
     /\ info_method' = [d \in DOMAIN info_method \ Range(infos) |-> info_method[d]]
     /\ faults' = faults \cup (IF ValidFrees(blocks) THEN {} ELSE {"invalid_free"})
  /\ unloaded' = unloaded \cup alloc
  /\ UNCHANGED last_update_time_ns_
  /\ returned_info' = [m \in Methods |-> IF m \in alloc THEN NoCall ELSE returned_info[m]]
  /\ cycle' = IF \E u \in Threads : pc[u] \in {"gc_checkpoint", "gc_barrier", "gc_sweep"}
                THEN [cycle EXCEPT !.removed = @ \cup alloc] ELSE cycle
  /\ UNCHANGED <<collection_in_progress_, capVars, code_end_, data_end_, live_bitmap_,
                 entry_point, threadVars, crashed>>
  /\ InSection(t)


\* ------------------------------------------ JitCodeCache::GarbageCollectCache
\* First critical section: wait for a collection in progress (and then return
\* without collecting), or announce this one.
GcStart(t) ==
  /\ pc[t] = "gc_start"
  /\ IF InCollection(collection_in_progress_)
       THEN /\ pc' = [pc EXCEPT ![t] = "gc_wait"]
            /\ UNCHANGED <<collection_in_progress_, cycle>>
       ELSE /\ collection_in_progress_' = TRUE
            /\ pc' = [pc EXCEPT ![t] = "gc_decide"]
            /\ cycle' = [NoCycle EXCEPT !.log = cycle.log, !.kind = "started", !.done = FALSE]
  /\ UNCHANGED <<capVars, codeVars, dataVars, profVars, live_bitmap_, entry_point, unloaded,
                 ret, localVars, result, stack, checkpoint_pending, attempts, gc_calls,
                 crashed, faults, ops>>
  /\ UNCHANGED <<returned_info, last_update_time_ns_>>
  /\ InSection(t)

\* WaitForPotentialCollectionToComplete returning true: the call returns.
GcWait(t) ==
  /\ pc[t] = "gc_wait"
  /\ WaitForPotentialCollectionToComplete
  /\ pc' = [pc EXCEPT ![t] = ret[t]]
  /\ ret' = [ret EXCEPT ![t] = "idle"]
  /\ UNCHANGED <<cacheVars, methodVars, localVars, result, stack, checkpoint_pending,
                 attempts, gc_calls, crashed, faults, ops, cycle>>
  /\ UNCHANGED <<returned_info, last_update_time_ns_>>
  /\ InSection(t)

\* A growth that goes on to collect.
ReturnAfterGrowth_FallsThrough(return_to) == "gc_reset"

\* The return statement after the growth: where the collector goes on.
ReturnAfterGrowth(return_to) == return_to

\* The end of the range CodeCacheBitmap::Create is given:
\* code_map_->Begin() + current_capacity_ / 2.
HeapLimit(capacity) == CodeMapBegin + capacity \div 2

\* Second critical section: grow the capacity and finish, or allocate the
\* live bitmap.
GcDecide(t) ==
  /\ pc[t] = "gc_decide"
  /\ IF Grows(has_done_one_collection_, current_capacity_, max_capacity_)
       THEN /\ current_capacity_' = IncreaseCodeCacheCapacity(current_capacity_, max_capacity_)
            /\ code_footprint_limit' = SetFootprintLimit(current_capacity_')
            /\ data_footprint_limit' = SetFootprintLimit(current_capacity_')
            /\ has_done_one_collection_' = FALSE
            /\ collection_in_progress_' = FALSE
            /\ pc' = [pc EXCEPT ![t] = ReturnAfterGrowth(ret[t])]
            /\ ret' = [ret EXCEPT ![t] = "idle"]
            /\ cycle' = [cycle EXCEPT !.kind = "grow", !.done = TRUE, !.log = Append(@, "grow")]
            /\ UNCHANGED live_bitmap_
       ELSE /\ live_bitmap_' = CodeCacheBitmap({})
            /\ pc' = [pc EXCEPT ![t] = "gc_reset"]
            /\ cycle' = [cycle EXCEPT !.kind = "sweep", !.log = Append(@, "sweep"),
                                      !.heap_limit = HeapLimit(current_capacity_)]
            /\ UNCHANGED <<current_capacity_, code_footprint_limit, data_footprint_limit,
                           has_done_one_collection_, collection_in_progress_, ret>>
  /\ UNCHANGED <<max_capacity_, codeVars, dataVars, profVars, entry_point, unloaded,
                 localVars, result, stack, checkpoint_pending, attempts, gc_calls, crashed,
                 faults, ops>>
  /\ UNCHANGED <<returned_info, last_update_time_ns_>>
  /\ InSection(t)

\* A reset that leaves the entry point as it is.
UpdateMethodsCodeToBridge_Keeps(current) == current

\* instrumentation->UpdateMethodsCode(method, GetQuickToInterpreterBridge()):
\* the method's new entry point.
UpdateMethodsCodeToBridge(current) == Bridge

\* A reset that leaves the ProfilingInfo of a method attached.
SetProfilingInfoNull_Keeps(current) == current

\* info->GetMethod()->SetProfilingInfo(nullptr): the method's new record.
SetProfilingInfoNull(current) == NULL

\* Third critical section: every method of the map gets the interpreter
\* bridge as its entry point and every listed ProfilingInfo is detached.
GcReset(t) ==
  /\ pc[t] = "gc_reset"
  /\ entry_point' = [m \in Methods |->
                       IF \E c \in DOMAIN method_code_map_ : method_code_map_[c] = m
                         THEN UpdateMethodsCodeToBridge(entry_point[m]) ELSE entry_point[m]]
  /\ profiling_info' = [m \in Methods |->
                          IF \E i \in Range(profiling_infos_) : info_method[i] = m
                            THEN SetProfilingInfoNull(profiling_info[m])
                            ELSE profiling_info[m]]
  /\ UNCHANGED last_update_time_ns_
  /\ returned_info' = [m \in Methods |-> NoCall]
  /\ pc' = [pc EXCEPT ![t] = "gc_checkpoint"]
  /\ UNCHANGED <<collection_in_progress_, capVars, codeVars, dataVars, profiling_infos_,
                 info_method, live_bitmap_, unloaded, ret, localVars, result, stack,
                 checkpoint_pending, attempts, gc_calls, crashed, faults, ops, cycle>>
  /\ InSection(t)

\* Whether a stack walk takes lock_: the walk resolves every frame whose pc is
\* in the code region with LookupMethodHeader, which returns before it locks
\* when the pc is outside the region.  In a behaviour that shows the critical
\* sections the walk runs when lock_ is free.
WalkLocks(codes) == codes # {}

\* ThreadList::RunCheckpoint: the collector runs the closure for itself and
\* for every suspended thread; every runnable thread is asked to run it.
RunCheckpoint(t) ==
  /\ pc[t] = "gc_checkpoint"
  /\ LET asked == {u \in Threads \ {t} : Runnable(u)}
         codes == UNION {WalkStack(u) : u \in Threads \ asked}
     IN
     /\ fine /\ WalkLocks(codes) => lock_ = NULL
     /\ checkpoint_pending' = asked
     /\ live_bitmap_' = MarkAll(live_bitmap_, codes)
     /\ cycle' = [cycle EXCEPT !.walked = @ \cup codes]
  /\ pc' = [pc EXCEPT ![t] = "gc_barrier"]
  /\ UNCHANGED <<collection_in_progress_, capVars, codeVars, dataVars, profVars, methodVars,
                 ret, localVars, result, stack, attempts, gc_calls, crashed, faults, ops>>
  /\ UNCHANGED <<returned_info, last_update_time_ns_>>
  /\ OutOfSection(t)

\* MarkCodeClosure::Run in a thread that was asked to run the checkpoint:
\* it walks its stack and passes the barrier.
MarkCodeClosureRun(t) ==
  /\ t \in checkpoint_pending
  /\ pc[t] = "idle"
  /\ fine /\ WalkLocks(WalkStack(t)) => lock_ = NULL
  /\ live_bitmap_' = MarkAll(live_bitmap_, WalkStack(t))
  /\ cycle' = [cycle EXCEPT !.walked = @ \cup WalkStack(t)]
  /\ checkpoint_pending' = checkpoint_pending \ {t}
  /\ UNCHANGED <<collection_in_progress_, capVars, codeVars, dataVars, profVars, methodVars,
                 pc, ret, localVars, result, stack, attempts, gc_calls, crashed, faults, ops>>
  /\ UNCHANGED <<returned_info, last_update_time_ns_>>
  /\ OutOfSection(t)

\* A barrier that lets the collector through at once.
BarrierIncrement_NoWait(pending) == TRUE

\* barrier.Increment(self, threads_running_checkpoint) returns when every
\* thread that was asked has passed the barrier.
BarrierIncrement(pending) == pending = {}

\* barrier.Increment: the collector goes on when every thread that was asked
\* has passed the barrier.
BarrierWait(t) ==
  /\ pc[t] = "gc_barrier"
  /\ BarrierIncrement(checkpoint_pending)
  /\ pc' = [pc EXCEPT ![t] = "gc_sweep"]
  /\ UNCHANGED <<cacheVars, methodVars, ret, localVars, result, stack, checkpoint_pending,
                 attempts, gc_calls, crashed, faults, ops, cycle>>
  /\ UNCHANGED <<returned_info, last_update_time_ns_>>
  /\ OutOfSection(t)

\* The sweep's loop over method_code_map_ in key order: the entry points
\* after it and whether the DCHECK_NE of an unmarked entry failed.
RECURSIVE SweepLoop(_, _, _)
SweepLoop(codes, ep, failed) ==
  IF Len(codes) = 0 THEN [entry_point |-> ep, failed |-> failed]
  ELSE LET code == Head(codes)
           m == method_code_map_[code]
       IN IF Test(live_bitmap_, FromCodeToAllocation(code))
            THEN SweepLoop(Tail(codes), [ep EXCEPT ![m] = code], failed)
            ELSE SweepLoop(Tail(codes), ep, failed \/ ep[m] = code)

\* A sweep that leaves the freed records in the list.
ClearProfilingInfos_Keeps(infos) == infos

\* profiling_infos_.clear()
ClearProfilingInfos(infos) == <<>>

\* A sweep that keeps the bitmap.
ResetLiveBitmap_Keeps(bitmap) == bitmap

\* live_bitmap_.reset(nullptr)
ResetLiveBitmap(bitmap) == NoBitmap

\* Fourth critical section: the sweep.  Marked entries get their entry point
\* back; unmarked entries are freed and erased; every ProfilingInfo is freed;
\* the bitmap is dropped and the collection is over.
Sweep(t) ==
  /\ pc[t] = "gc_sweep"
  /\ LET dead == {c \in DOMAIN method_code_map_ : ~Test(live_bitmap_, FromCodeToAllocation(c))}
         loop == SweepLoop(SortedSeq(DOMAIN method_code_map_), entry_point, FALSE)
         blocks == FreedBlocks(SortedSeq(dead)) \o profiling_infos_
         attached == \E i \in Range(profiling_infos_) : profiling_info[info_method[i]] # NULL
     IN
     /\ entry_point' = loop.entry_point
     /\ code_mspace_' = code_mspace_ \ Range(blocks)
     /\ data_mspace_' = data_mspace_ \ Range(blocks)
     /\ headers' = [c \in DOMAIN headers \ dead |-> headers[c]]
     /\ method_code_map_' = [c \in DOMAIN method_code_map_ \ dead |-> method_code_map_[c]]
     /\ profiling_infos_' = ClearProfilingInfos(profiling_infos_)
     /\ info_method' = [d \in {} |-> NULL]
     /\ faults' = faults \cup (IF ValidFrees(blocks) THEN {} ELSE {"invalid_free"})
                         \cup (IF loop.failed THEN {"dcheck_entry_point"} ELSE {})
                         \cup (IF attached THEN {"dcheck_profiling_info"} ELSE {})
     /\ cycle' = [cycle EXCEPT !.examined = live_bitmap_.bits,
                               !.before = DOMAIN method_code_map_,
                               !.freed = DOMAIN method_code_map_ \ DOMAIN method_code_map_',
                               !.done = TRUE]
  /\ live_bitmap_' = ResetLiveBitmap(live_bitmap_)
  /\ has_done_one_collection_' = TRUE
  /\ collection_in_progress_' = FALSE
  /\ pc' = [pc EXCEPT ![t] = ret[t]]
  /\ ret' = [ret EXCEPT ![t] = "idle"]
  /\ UNCHANGED <<max_capacity_, current_capacity_, code_footprint_limit, data_footprint_limit,
                 code_end_, data_end_, profiling_info, unloaded, localVars, result,
                 stack, checkpoint_pending, attempts, gc_calls, crashed, ops>>
  /\ UNCHANGED <<returned_info, last_update_time_ns_>>
  /\ InSection(t)

\* ------------------------------------------------------------------- Next
Next ==
  \/ \E t \in Threads, m \in Methods : Enter(t, m)
  \/ \E t \in Threads, c \in Slots(CodeMapBegin + HeaderSize, CodeMapEnd - CodeMapBegin, TotalSize) : Leave(t, c)
  \/ \E t \in Threads, m \in Methods : CompileMethod(t, m)
  \/ \E t \in Threads : ReserveData(t)
  \/ \E t \in Threads : CommitCodeInternal(t)
  \/ \E t \in Threads : Publish(t)
  \/ \E t \in Threads : ClearData(t)
  \/ \E t \in Threads, m \in Methods, retry \in BOOLEAN : AddProfilingInfo(t, m, retry)
  \/ \E t \in Threads : AddProfilingInfoInternal(t)
  \/ \E t \in Threads, alloc \in SUBSET Methods : RemoveMethodsIn(t, alloc)
  \/ \E t \in Threads : GcStart(t)
  \/ \E t \in Threads : GcWait(t)
  \/ \E t \in Threads : GcDecide(t)
  \/ \E t \in Threads : GcReset(t)
  \/ \E t \in Threads : RunCheckpoint(t)
  \/ \E t \in Threads : MarkCodeClosureRun(t)
  \/ \E t \in Threads : BarrierWait(t)
  \/ \E t \in Threads : Sweep(t)

Spec == Init /\ [][Next]_vars

\* ------------------------------------------- critical sections in steps
\* The positions at which a thread is about to run a critical section.
SectionPcs == {"rd1", "rd2", "cc1", "cc2", "pub", "clear", "pi1", "pi2",
               "gc_start", "gc_wait", "gc_decide", "gc_reset", "gc_sweep"}

\* ScopedCodeCacheWrite's constructor and destructor: the protection they set.
ScopedCodeCacheWrite_Enter(current) == kProtAll

ScopedCodeCacheWrite_Exit_Keeps(current) == current

ScopedCodeCacheWrite_Exit(current) == kProtCode

\* MutexLock mu(self, lock_): the thread enters its critical section.
Begin(t) ==
  /\ fine /\ ~crashed
  /\ phase[t] = "out"
  /\ pc[t] \in SectionPcs \/ (CanStart(t) /\ \E alloc \in SUBSET Methods : Unloadable(alloc))
  /\ LockedSection(pc[t]) => lock_ = NULL
  /\ lock_' = IF LockedSection(pc[t]) THEN t ELSE lock_
  /\ phase' = [phase EXCEPT ![t] = "locked"]
  /\ mprotects' = [mprotects EXCEPT ![t] = 0]
  /\ UNCHANGED <<cacheVars, methodVars, threadVars, crashed, faults, ops, cycle,
                 returned_info, last_update_time_ns_, fine, prot, scope_depth, pure_call>>

\* lock_cond_.Wait in WaitForPotentialCollectionToComplete: a collection is
\* in progress, the thread releases lock_ and sleeps.
CondWait(t) ==
  /\ fine /\ ~crashed
  /\ phase[t] = "locked"
  /\ NeedsWait(t)
  /\ collection_in_progress_
  /\ lock_' = IF lock_ = t THEN NULL ELSE lock_
  /\ phase' = [phase EXCEPT ![t] = "waiting"]
  /\ UNCHANGED <<cacheVars, methodVars, threadVars, crashed, faults, ops, cycle,
                 returned_info, last_update_time_ns_, fine, prot, scope_depth, mprotects, pure_call>>

\* The wait returns: the thread has lock_ again and tests the flag again.
Wake(t) ==
  /\ fine /\ ~crashed
  /\ phase[t] = "waiting"
  /\ LockedSection(pc[t]) => lock_ = NULL
  /\ lock_' = IF LockedSection(pc[t]) THEN t ELSE lock_
  /\ phase' = [phase EXCEPT ![t] = "locked"]
  /\ UNCHANGED <<cacheVars, methodVars, threadVars, crashed, faults, ops, cycle,
                 returned_info, last_update_time_ns_, fine, prot, scope_depth, mprotects, pure_call>>

\* ScopedCodeCacheWrite scc(code_map_.get()): the code region becomes writable.
ScopeEnter(t) ==
  /\ fine /\ ~crashed
  /\ phase[t] = "locked"
  /\ NeedsScope(t)
  /\ NeedsWait(t) => ~collection_in_progress_
  /\ prot' = ScopedCodeCacheWrite_Enter(prot)
  /\ scope_depth' = [scope_depth EXCEPT ![t] = @ + 1]
  /\ mprotects' = [mprotects EXCEPT ![t] = @ + 1]
  /\ phase' = [phase EXCEPT ![t] = "scoped"]
  /\ UNCHANGED <<cacheVars, methodVars, threadVars, crashed, faults, ops, cycle,
                 returned_info, last_update_time_ns_, fine, lock_, pure_call>>

\* method_code_map_.Put(code_ptr, method), the first statement of the
\* critical section that publishes a commit.
PublishPut(t) ==
  /\ fine /\ ~crashed
  /\ phase[t] = "locked"
  /\ pc[t] = "pub"
  /\ method_code_map_' =
       [c \in DOMAIN method_code_map_ \cup {code_ptr[t]} |->
          IF c = code_ptr[t] THEN method[t] ELSE method_code_map_[c]]
  /\ phase' = [phase EXCEPT ![t] = "put"]
  /\ UNCHANGED <<collection_in_progress_, capVars, code_mspace_, code_end_, headers,
                 dataVars, profVars, live_bitmap_, methodVars, threadVars, crashed, faults,
                 ops, cycle, returned_info, last_update_time_ns_, fine, lock_, prot, scope_depth, mprotects,
                 pure_call>>

\* ~ScopedCodeCacheWrite, on every path that leaves the scope.
ScopeExit(t) ==
  /\ fine /\ ~crashed
  /\ phase[t] = "written"
  /\ prot' = ScopedCodeCacheWrite_Exit(prot)
  /\ scope_depth' = [scope_depth EXCEPT ![t] = @ - 1]
  /\ phase' = [phase EXCEPT ![t] = "done"]
  /\ UNCHANGED <<cacheVars, methodVars, threadVars, crashed, faults, ops, cycle,
                 returned_info, last_update_time_ns_, fine, lock_, mprotects, pure_call>>

\* A collector that keeps lock_ after the reset, over the checkpoint.
Release_KeptOverCheckpoint(t) ==
  /\ fine /\ ~crashed
  /\ phase[t] = "done"
  /\ lock_' = IF lock_ = t /\ pc[t] # "gc_checkpoint" THEN NULL ELSE lock_
  /\ phase' = [phase EXCEPT ![t] = "out"]
  /\ UNCHANGED <<cacheVars, methodVars, threadVars, crashed, faults, ops, cycle,
                 returned_info, last_update_time_ns_, fine, prot, scope_depth, mprotects, pure_call>>

\* ~MutexLock: the critical section ends.
Release(t) ==
  /\ fine /\ ~crashed
  /\ phase[t] = "done"
  /\ lock_' = IF lock_ = t THEN NULL ELSE lock_
  /\ phase' = [phase EXCEPT ![t] = "out"]
  /\ UNCHANGED <<cacheVars, methodVars, threadVars, crashed, faults, ops, cycle,
                 returned_info, last_update_time_ns_, fine, prot, scope_depth, mprotects, pure_call>>

LockInit ==
  \E initial \in InitialCapacityArgs :
    /\ CapacityInit(initial)
    /\ NoCodeInit
    /\ RestInit
    /\ SectionInit
    /\ fine = TRUE
    /\ pure_call = NoPureCall

LockNext ==
  \/ \E t \in Threads, m \in Methods : Enter(t, m)
  \/ \E t \in Threads, c \in Slots(CodeMapBegin + HeaderSize, CodeMapEnd - CodeMapBegin, TotalSize) : Leave(t, c)
  \/ \E t \in Threads, m \in Methods : CompileMethod(t, m)
  \/ \E t \in Threads : ReserveData(t)
  \/ \E t \in Threads : CommitCodeInternal(t)
  \/ \E t \in Threads : Publish(t)
  \/ \E t \in Threads : ClearData(t)
  \/ \E t \in Threads, m \in Methods, retry \in BOOLEAN : AddProfilingInfo(t, m, retry)
  \/ \E t \in Threads : AddProfilingInfoInternal(t)
  \/ \E t \in Threads, alloc \in SUBSET Methods : RemoveMethodsIn(t, alloc)
  \/ \E t \in Threads : GcStart(t)
  \/ \E t \in Threads : GcWait(t)
  \/ \E t \in Threads : GcDecide(t)
  \/ \E t \in Threads : GcReset(t)
  \/ \E t \in Threads : RunCheckpoint(t)
  \/ \E t \in Threads : MarkCodeClosureRun(t)
  \/ \E t \in Threads : BarrierWait(t)
  \/ \E t \in Threads : Sweep(t)
  \/ \E t \in Threads : Begin(t)
  \/ \E t \in Threads : CondWait(t)
  \/ \E t \in Threads : Wake(t)
  \/ \E t \in Threads : ScopeEnter(t)
  \/ \E t \in Threads : PublishPut(t)
  \/ \E t \in Threads : ScopeExit(t)
  \/ \E t \in Threads : Release(t)

LockSpec == LockInit /\ [][LockNext]_vars

\* ------------------------------------------------- LookupMethodHeader alone
SetMax(S) == CHOOSE x \in S : \A y \in S : y <= x

\* OatQuickMethodHeader::Contains for the header of the entry at code: the pc
\* falls within the entry's recorded length.
Contains(code, upc) == code <= upc /\ upc < code + CodeSize

\* What a call can do after undefined behaviour besides returning: it dies.
SIGSEGV == -1

\* lower_bound(pc) is the first key not less than pc, so --it is at the
\* greatest key strictly less than pc.
Predecessors(keys, upc) == {c \in keys : c < upc}

\* JitCodeCache::LookupMethodHeader after the Thumb adjustment of pc: the
\* values a call can return (a header is named by the code it precedes).
\* When no key is less than pc, --it decrements begin(): undefined, the call
\* returns null, returns any header, or dies.
LookupMethodHeader(upc) ==
  LET keys == DOMAIN method_code_map_
      below == Predecessors(keys, upc)
  IN IF ~ContainsPc(upc) THEN {NULL}
     ELSE IF keys = {} THEN {NULL}
     ELSE IF below = {} THEN {NULL, SIGSEGV} \cup keys
     ELSE IF Contains(SetMax(below), upc) THEN {SetMax(below)} ELSE {NULL}

\* The code blocks a cache of the given code footprint can hold.
CodeBlocks(limit) == {a + HeaderSize : a \in Slots(CodeMapBegin, limit, TotalSize)}

\* The program counters the lookup is called with: around the start, the
\* middle and the end of every code block, and outside the code region.
LookupPcs ==
  UNION {{c - HeaderSize, c - 1, c, c + 1, c + CodeSize - 1} :
           c \in CodeBlocks(CodeMapEnd - CodeMapBegin)}
  \cup {CodeMapBegin - 1, CodeMapEnd}

\* A cache with any entries its code region can hold, each owned by a method.
LookupInit ==
  \E initial \in InitialCapacityArgs :
    /\ CapacityInit(initial)
    /\ \E codes \in SUBSET CodeBlocks(code_footprint_limit) :
       \E owner \in [codes -> Methods] :
         /\ code_mspace_ = {FromCodeToAllocation(c) : c \in codes}
         /\ headers = [c \in codes |-> OatQuickMethodHeader(c, NULL, NULL, NULL)]
         /\ method_code_map_ = owner
         /\ entry_point = [m \in Methods |-> Bridge]
    /\ RestInit
    /\ SectionInit
    /\ fine = FALSE
    /\ pure_call = NoPureCall

\* One call of LookupMethodHeader; on Thumb-2 the pc is offset by one.
LookupCall(upc, arm) ==
  /\ \E r \in LookupMethodHeader(IF arm THEN upc - 1 ELSE upc) :
       pure_call' = [op |-> "LookupMethodHeader",
                     pc |-> IF arm THEN upc - 1 ELSE upc,
                     result |-> r]
  /\ UNCHANGED <<cacheVars, methodVars, threadVars, crashed, faults, ops, cycle,
                 returned_info, last_update_time_ns_, sectionVars>>

LookupNext == \E upc \in LookupPcs, arm \in BOOLEAN : LookupCall(upc, arm)

LookupSpec == LookupInit /\ [][LookupNext]_vars

\* ------------------------------------------------ JitCodeCache::Create alone
\* The arguments Create is called with: initial capacities of one or two
\* pairs of pages, aligned or not, and maximum capacities from the initial
\* one up to more than 1 GB.
MaxCreatePairs == 2
CreateInitialArgs ==
  {k * 2 * kPageSize + d : k \in 1..MaxCreatePairs, d \in {0, 1, kPageSize, 2 * kPageSize - 1}}
CreateMaxArgs ==
  {MaxCreatePairs * 2 * kPageSize + d : d \in {0, 2 * kPageSize - 1, 2 * kPageSize}}
  \cup {1 * GB, 1 * GB + 1, 1 * GB + 2 * kPageSize}

\* What MemMap says when a mapping fails (it may say nothing).
MapErrors == {"", "mmap failed"}

\* std::ostringstream: the text after the given pieces were streamed into
\* it, as the sequence of the pieces that have any character.
ostringstream_Empty(pieces) == <<>>

ostringstream(pieces) == SelectSeq(pieces, LAMBDA piece : piece # "")

\* JitCodeCache::Create with the outcomes of MemMap::MapAnonymous and
\* MemMap::RemapAtEnd: what it returns, the error message it sets and
\* whether it ran the constructor (sizes are printed in bytes).
CreateWithMaps(initial_capacity, max_capacity, data_map, code_map, error_str) ==
  IF max_capacity > 1 * GB
    THEN [returned |-> NULL, constructed |-> FALSE,
          error_msg |-> ostringstream(<<"Maxium code cache capacity is limited to 1 GB, ",
                                        ToString(max_capacity), " is too big">>)]
  ELSE IF ~data_map
    THEN [returned |-> NULL, constructed |-> FALSE,
          error_msg |-> ostringstream(<<"Failed to create read write execute cache: ",
                                        error_str, " size=", ToString(max_capacity)>>)]
  ELSE IF ~code_map
    THEN [returned |-> NULL, constructed |-> FALSE,
          error_msg |-> ostringstream(<<"Failed to create read write execute cache: ",
                                        error_str, " size=",
                                        ToString(RoundDown(max_capacity, 2 * kPageSize))>>)]
  ELSE [returned |-> Create(initial_capacity, max_capacity),
        constructed |-> TRUE, error_msg |-> <<>>]

\* Before Create there is no cache: no capacity, no mapping, nothing allocated.
CreateInit ==
  /\ max_capacity_ = 0
  /\ current_capacity_ = 0
  /\ code_end_ = 0
  /\ data_end_ = 0
  /\ code_footprint_limit = 0
  /\ data_footprint_limit = 0
  /\ NoCodeInit
  /\ RestInit
  /\ fine = FALSE
  /\ lock_ = NULL
  /\ phase = [t \in Threads |-> "out"]
  /\ prot = "unmapped"
  /\ scope_depth = [t \in Threads |-> 0]
  /\ mprotects = [t \in Threads |-> 0]
  /\ pure_call = NoPureCall

\* One call of Create (with max_capacity >= initial_capacity, which it
\* CHECKs); when it constructs the cache the fields are the constructor's.
CreateCall(initial_capacity, max_capacity, data_map, code_map, error_str) ==
  /\ pure_call = NoPureCall
  /\ max_capacity >= initial_capacity
  /\ LET r == CreateWithMaps(initial_capacity, max_capacity, data_map, code_map, error_str)
     IN
     /\ pure_call' = [op |-> "Create",
                      initial_capacity |-> initial_capacity,
                      max_capacity |-> max_capacity,
                      mapped |-> data_map /\ code_map,
                      error_str |-> error_str,
                      returned |-> IF r.constructed THEN 1 ELSE NULL,
                      error_msg |-> r.error_msg]
     /\ IF r.constructed
          THEN /\ max_capacity_' = r.returned.max_capacity
               /\ current_capacity_' = r.returned.code_size + r.returned.data_size
               /\ code_end_' = r.returned.code_size
               /\ data_end_' = r.returned.data_size
               /\ code_footprint_limit' = SetFootprintLimit(current_capacity_')
               /\ data_footprint_limit' = SetFootprintLimit(current_capacity_')
               /\ prot' = kProtCode
          ELSE /\ UNCHANGED <<max_capacity_, current_capacity_, code_end_, data_end_,
                              code_footprint_limit, data_footprint_limit>>
               /\ prot' = IF max_capacity <= 1 * GB /\ data_map THEN kProtAll ELSE prot
  /\ UNCHANGED <<collection_in_progress_, has_done_one_collection_, code_mspace_, headers,
                 method_code_map_, data_mspace_, profVars, live_bitmap_, methodVars,
                 threadVars, crashed, faults, ops, cycle, returned_info, last_update_time_ns_, fine, lock_, phase,
                 scope_depth, mprotects>>

CreateNext ==
  \E initial_capacity \in CreateInitialArgs, max_capacity \in CreateMaxArgs,
     data_map \in BOOLEAN, code_map \in BOOLEAN, error_str \in MapErrors :
    CreateCall(initial_capacity, max_capacity, data_map, code_map, error_str)

CreateSpec == CreateInit /\ [][CreateNext]_vars

\* ------------------------------------------- the capacity and its growth alone
\* The arguments Create is called with: a few pairs of pages and a few
\* megabytes, aligned to two pages or not, up to 1 GB.
MaxGrowPairs == 3
MaxGrowMB == 3
GrowArgs ==
  {k * 2 * kPageSize + d : k \in 0..MaxGrowPairs, d \in {0, kPageSize + 1}}
  \cup {j * MB + e : j \in 1..MaxGrowMB, e \in {0 - 2 * kPageSize, 0, kPageSize}}
  \cup {1 * GB}

\* The cache as Create and the constructor leave it for the given
\* arguments (Create CHECKs max_capacity >= initial_capacity); the
\* constructor calls SetFootprintLimit(current_capacity_).
GrowInit ==
  /\ \E initial_capacity \in GrowArgs, max_capacity \in GrowArgs :
       LET c == Create(initial_capacity, max_capacity) IN
       /\ max_capacity >= initial_capacity
       /\ c.created
       /\ max_capacity_ = c.max_capacity
       /\ current_capacity_ = c.code_size + c.data_size
       /\ code_end_ = c.code_size
       /\ data_end_ = c.data_size
       /\ code_footprint_limit = SetFootprintLimit(c.code_size + c.data_size)
       /\ data_footprint_limit = SetFootprintLimit(c.code_size + c.data_size)
       /\ pure_call = [op |-> "JitCodeCache",
                       initial_capacity |-> initial_capacity,
                       max_capacity |-> max_capacity,
                       new_footprint |-> c.code_size + c.data_size,
                       dchecks |-> SetFootprintLimit_DCHECKs(c.code_size + c.data_size)]
  /\ NoCodeInit
  /\ RestInit
  /\ fine = FALSE
  /\ lock_ = NULL
  /\ phase = [t \in Threads |-> "out"]
  /\ prot = kProtCode
  /\ scope_depth = [t \in Threads |-> 0]
  /\ mprotects = [t \in Threads |-> 0]

\* One call of IncreaseCodeCacheCapacity: it calls SetFootprintLimit only
\* when it returns true (the record of the call keeps the arguments the
\* cache was created with).
IncreaseCall ==
  /\ pure_call.op \in {"JitCodeCache", "IncreaseCodeCacheCapacity"}
  /\ current_capacity_' = IncreaseCodeCacheCapacity(current_capacity_, max_capacity_)
  /\ IF IncreaseCodeCacheCapacity_Returns(current_capacity_, max_capacity_)
       THEN /\ code_footprint_limit' = SetFootprintLimit(current_capacity_')
            /\ data_footprint_limit' = SetFootprintLimit(current_capacity_')
            /\ pure_call' = [op |-> "IncreaseCodeCacheCapacity",
                             initial_capacity |-> pure_call.initial_capacity,
                             max_capacity |-> pure_call.max_capacity,
                             old |-> current_capacity_,
                             returned |-> TRUE,
                             new_footprint |-> current_capacity_',
                             dchecks |-> SetFootprintLimit_DCHECKs(current_capacity_')]
       ELSE /\ UNCHANGED <<code_footprint_limit, data_footprint_limit>>
            /\ pure_call' = [op |-> "IncreaseCodeCacheCapacity",
                             initial_capacity |-> pure_call.initial_capacity,
                             max_capacity |-> pure_call.max_capacity,
                             old |-> current_capacity_,
                             returned |-> FALSE,
                             new_footprint |-> NULL,
                             dchecks |-> TRUE]
  /\ UNCHANGED <<collection_in_progress_, max_capacity_, code_end_, data_end_,
                 has_done_one_collection_, code_mspace_, headers, method_code_map_,
                 data_mspace_, profVars, live_bitmap_, methodVars, threadVars, crashed,
                 faults, ops, cycle, returned_info, last_update_time_ns_, sectionVars>>

GrowNext == IncreaseCall

GrowSpec == GrowInit /\ [][GrowNext]_vars

\* ---------------------------------------------- marking in the bitmap alone
\* The granularity of CodeCacheBitmap (one bit per kJitCodeAlignment bytes
\* from code_map_->Begin()) and the number of bits of one of its words.
kJitCodeAlignment == 16
kBitsPerIntPtrT == 64

\* The word of the bitmap that holds the bit of an address.
WordIndex(addr) == (addr - CodeMapBegin) \div (kJitCodeAlignment * kBitsPerIntPtrT)

\* The word an atomic load reads: the bits set in it, as addresses.
LoadRelaxed(bitmap, addr) == {b \in bitmap.bits : WordIndex(b) = WordIndex(addr)}

\* A compare-and-exchange that stores without comparing.
CompareExchangeWeak_Always(word, expected_value, spurious) == TRUE

\* Atomic compare-and-exchange of a word: it stores only when the word still
\* has the expected value, and the weak form may fail even then.
CompareExchangeWeak(word, expected_value, spurious) == word = expected_value /\ ~spurious

\* The bitmap after a word of it was stored.
StoreWord(bitmap, addr, desired_value) ==
  [bitmap EXCEPT !.bits = (@ \ LoadRelaxed(bitmap, addr)) \cup desired_value]

\* Code whose allocations have their bits in the same word (the first two)
\* and in the next word.
MarkCodes ==
  {CodeMapBegin + offset + HeaderSize :
     offset \in {0, kJitCodeAlignment, kJitCodeAlignment * kBitsPerIntPtrT}}

\* The addresses a thread marks: the allocations of the frames of its stack
\* when it runs the checkpoint, the allocation of its code when it commits.
MarkRequests(t) ==
  {FromCodeToAllocation(c) : c \in WalkStack(t)}
  \cup (IF code_ptr[t] # NULL THEN {FromCodeToAllocation(code_ptr[t])} ELSE {})

\* A collection is in progress and the bitmap is allocated, with no bit
\* set; every thread either has the checkpoint pending, with any frames on
\* its stack, or is about to publish code of its own (newly allocated, so
\* on no stack and committed by no other thread).
MarkInit ==
  /\ CapacityInit(MaxCapacityArg)
  /\ NoCodeInit
  /\ collection_in_progress_ = TRUE
  /\ has_done_one_collection_ = FALSE
  /\ data_mspace_ = {}
  /\ profiling_infos_ = <<>>
  /\ info_method = [d0 \in {} |-> NULL]
  /\ live_bitmap_ = [allocated |-> TRUE, bits |-> {}]
  /\ profiling_info = [m \in Methods |-> NULL]
  /\ unloaded = {}
  /\ crashed = FALSE
  /\ faults = {}
  /\ stack \in [Threads -> SUBSET MarkCodes]
  /\ code_ptr \in [Threads -> MarkCodes \cup {NULL}]
  /\ \A t \in Threads :
       code_ptr[t] # NULL =>
         /\ \A u \in Threads : code_ptr[t] \notin stack[u]
         /\ \A u \in Threads \ {t} : code_ptr[u] # code_ptr[t]
  /\ pc = [t \in Threads |-> IF code_ptr[t] # NULL THEN "pub" ELSE "idle"]
  /\ checkpoint_pending = {t \in Threads : code_ptr[t] = NULL}
  /\ ret = [t \in Threads |-> "idle"]
  /\ method = [t \in Threads |-> NULL]
  /\ stack_map_data = [t \in Threads |-> NULL]
  /\ result = [t \in Threads |-> NULL]
  /\ retry_allocation = [t \in Threads |-> FALSE]
  /\ attempts = [t \in Threads |-> 0]
  /\ gc_calls = [t \in Threads |-> 0]
  /\ ops = 0
  /\ cycle = NoCycle
  /\ returned_info = [m \in Methods |-> NoCall]
  /\ last_update_time_ns_ = 0
  /\ SectionInit
  /\ fine = TRUE
  /\ pure_call = [op |-> "AtomicTestAndSet",
                  todo |-> [t \in Threads |-> MarkRequests(t)],
                  addr |-> [t \in Threads |-> NULL],
                  old_word |-> [t \in Threads |-> {}],
                  marked |-> [t \in Threads |-> {}],
                  exchange_failed |-> FALSE]

\* Whether a thread still marks.
Marking(t) == pc[t] = "pub" \/ t \in checkpoint_pending

\* A thread is through with one address; with its last one the checkpoint
\* of a walking thread is over, and a committing thread leaves its critical
\* section.
MarkReturn(t, addr, failed) ==
  LET todo == pure_call.todo[t] \ {addr} IN
  /\ pure_call' = [pure_call EXCEPT !.todo[t] = todo,
                                    !.addr[t] = NULL,
                                    !.old_word[t] = {},
                                    !.marked[t] = @ \cup {addr},
                                    !.exchange_failed = @ \/ failed]
  /\ IF todo = {}
       THEN /\ pc' = [pc EXCEPT ![t] = "idle"]
            /\ checkpoint_pending' = checkpoint_pending \ {t}
            /\ lock_' = IF lock_ = t THEN NULL ELSE lock_
            /\ phase' = [phase EXCEPT ![t] = "out"]
       ELSE UNCHANGED <<pc, checkpoint_pending, lock_, phase>>

\* AtomicTestAndSet, the load: old_word = LoadRelaxed(); if the bit is set
\* the call returns true.  The thread that commits takes lock_ first; the
\* threads that walk their stacks hold no lock.  A thread with nothing to
\* mark ends its checkpoint.
MarkLoad(t) ==
  /\ Marking(t)
  /\ pure_call.addr[t] = NULL
  /\ pc[t] = "pub" => lock_ \in {NULL, t}
  /\ IF pure_call.todo[t] = {}
       THEN /\ checkpoint_pending' = checkpoint_pending \ {t}
            /\ UNCHANGED <<live_bitmap_, pc, lock_, phase, pure_call>>
       ELSE \E addr \in pure_call.todo[t] :
              LET old_word == LoadRelaxed(live_bitmap_, addr) IN
              IF addr \in old_word
                THEN /\ MarkReturn(t, addr, FALSE)
                     /\ UNCHANGED live_bitmap_
                ELSE /\ pure_call' = [pure_call EXCEPT !.addr[t] = addr,
                                                       !.old_word[t] = old_word]
                     /\ lock_' = IF pc[t] = "pub" THEN t ELSE lock_
                     /\ phase' = [phase EXCEPT ![t] = IF pc[t] = "pub" THEN "locked" ELSE @]
                     /\ UNCHANGED <<live_bitmap_, pc, checkpoint_pending>>
  /\ UNCHANGED <<collection_in_progress_, max_capacity_, current_capacity_, code_end_,
                 data_end_, code_footprint_limit, data_footprint_limit,
                 has_done_one_collection_, code_mspace_, data_mspace_, headers,
                 method_code_map_, profiling_infos_, info_method, methodVars, ret, method,
                 stack_map_data, code_ptr, result, retry_allocation, stack, attempts,
                 gc_calls, crashed, faults, ops, cycle, returned_info, last_update_time_ns_, fine, prot,
                 scope_depth, mprotects>>

\* AtomicTestAndSet, the exchange: while
\* (!CompareExchangeWeak(old_word, old_word | mask)); a failed exchange
\* goes back to the load.
MarkExchange(t) ==
  /\ Marking(t)
  /\ pure_call.addr[t] # NULL
  /\ \E spurious \in BOOLEAN :
       LET addr == pure_call.addr[t]
           old_word == pure_call.old_word[t]
       IN
       IF CompareExchangeWeak(LoadRelaxed(live_bitmap_, addr), old_word, spurious)
         THEN /\ live_bitmap_' = StoreWord(live_bitmap_, addr, old_word \cup {addr})
              /\ MarkReturn(t, addr, FALSE)
         ELSE /\ pure_call' = [pure_call EXCEPT !.addr[t] = NULL,
                                                !.old_word[t] = {},
                                                !.exchange_failed = @ \/ ~spurious]
              /\ UNCHANGED <<live_bitmap_, pc, checkpoint_pending, lock_, phase>>
  /\ UNCHANGED <<collection_in_progress_, max_capacity_, current_capacity_, code_end_,
                 data_end_, code_footprint_limit, data_footprint_limit,
                 has_done_one_collection_, code_mspace_, data_mspace_, headers,
                 method_code_map_, profiling_infos_, info_method, methodVars, ret, method,
                 stack_map_data, code_ptr, result, retry_allocation, stack, attempts,
                 gc_calls, crashed, faults, ops, cycle, returned_info, last_update_time_ns_, fine, prot,
                 scope_depth, mprotects>>

MarkNext ==
  \E t \in Threads :
    \/ MarkLoad(t)
    \/ MarkExchange(t)

MarkSpec == MarkInit /\ [][MarkNext]_vars

\* --------------------------------------------- the method header alone
\* The maximum capacities of the caches the headers are written in: the one
\* of the cache above and the greatest one Create accepts.
HeaderMaxArgs == {MaxCapacityArg, 1 * GB}

\* code_map_->Begin() of a cache of the given maximum capacity.
HeaderDivider(maxc) == Create(maxc, maxc).divider

\* Code pointers CommitCodeInternal can get from the code region (its first
\* and its last allocation) and blocks ReserveData can return (the first
\* two and the last of the data region).
HeaderCodes(maxc) ==
  {HeaderDivider(maxc) + HeaderSize,
   HeaderDivider(maxc) + (maxc \div 2) - TotalSize + HeaderSize}
HeaderBlobs(maxc) ==
  {DataMapBegin, DataMapBegin + DataSize, HeaderDivider(maxc) - DataSize}

\* A cache at its maximum capacity with nothing allocated; pure_call will
\* keep, for every entry, the three pointers its commit was given.
HeaderInit ==
  /\ \E maxc \in HeaderMaxArgs :
       LET c == Create(maxc, maxc) IN
       /\ max_capacity_ = c.max_capacity
       /\ current_capacity_ = c.code_size + c.data_size
       /\ code_end_ = 0
       /\ data_end_ = 0
       /\ code_footprint_limit = SetFootprintLimit(c.code_size + c.data_size)
       /\ data_footprint_limit = SetFootprintLimit(c.code_size + c.data_size)
  /\ NoCodeInit
  /\ RestInit
  /\ SectionInit
  /\ fine = FALSE
  /\ pure_call = [op |-> "JitCodeCache", commits |-> [c0 \in {} |-> NULL], freed |-> {}]

\* CommitCodeInternal's allocation and header for code at code_ptr, with
\* the blocks the caller reserved for the three tables (null, or different
\* blocks of the data region that are not in use).
HeaderCommit(code, mapping_table, vmap_table, gc_map) ==
  LET blobs == {mapping_table, vmap_table, gc_map} \ {NULL} IN
  /\ code \notin DOMAIN headers
  /\ blobs \cap data_mspace_ = {}
  /\ Cardinality(blobs) = Cardinality({i \in 1..3 : <<mapping_table, vmap_table, gc_map>>[i] # NULL})
  /\ data_mspace_' = data_mspace_ \cup blobs
  /\ code_mspace_' = code_mspace_ \cup {FromCodeToAllocation(code)}
  /\ headers' = [c \in DOMAIN headers \cup {code} |->
                   IF c = code
                     THEN OatQuickMethodHeader(code, mapping_table, vmap_table, gc_map)
                     ELSE headers[c]]
  /\ pure_call' = [op |-> "CommitCodeInternal",
                   commits |-> [c \in DOMAIN headers \cup {code} |->
                                  IF c = code
                                    THEN [mapping_table |-> mapping_table,
                                          vmap_table |-> vmap_table,
                                          gc_map |-> gc_map]
                                    ELSE pure_call.commits[c]],
                   freed |-> {}]
  /\ UNCHANGED <<collection_in_progress_, capVars, code_end_, data_end_, method_code_map_,
                 profVars, live_bitmap_, entry_point, unloaded, threadVars, crashed, faults,
                 ops, cycle, returned_info, last_update_time_ns_, sectionVars>>

\* FreeCode for an entry: the blocks its header leads to and its allocation
\* are released.
HeaderFree(code) ==
  /\ code \in DOMAIN headers
  /\ data_mspace_' = data_mspace_ \ FreeCodeData(code, headers[code])
  /\ code_mspace_' = mspace_free(code_mspace_, FromCodeToAllocation(code))
  /\ headers' = [c \in DOMAIN headers \ {code} |-> headers[c]]
  /\ pure_call' = [op |-> "FreeCode",
                   commits |-> [c \in DOMAIN headers \ {code} |-> pure_call.commits[c]],
                   freed |-> FreeCodeData(code, headers[code])]
  /\ faults' = faults \cup (IF FreeCodeData(code, headers[code]) \subseteq data_mspace_
                              THEN {} ELSE {"invalid_free"})
  /\ UNCHANGED <<collection_in_progress_, capVars, code_end_, data_end_, method_code_map_,
                 profVars, live_bitmap_, entry_point, unloaded, threadVars, crashed,
                 ops, cycle, returned_info, last_update_time_ns_, sectionVars>>

HeaderNext ==
  \/ \E code \in HeaderCodes(max_capacity_),
        mapping_table \in HeaderBlobs(max_capacity_) \cup {NULL},
        vmap_table \in HeaderBlobs(max_capacity_) \cup {NULL},
        gc_map \in HeaderBlobs(max_capacity_) \cup {NULL} :
       HeaderCommit(code, mapping_table, vmap_table, gc_map)
  \/ \E code \in HeaderCodes(max_capacity_) : HeaderFree(code)

HeaderSpec == HeaderInit /\ [][HeaderNext]_vars

TypeOK ==
  /\ collection_in_progress_ \in BOOLEAN
  /\ code_mspace_ \subseteq Slots(CodeMapBegin, max_capacity_ \div 2, TotalSize)
  /\ data_mspace_ \subseteq Slots(DataMapBegin, max_capacity_ \div 2, DataSize)
  /\ \A m \in Methods : entry_point[m] = Bridge \/ ContainsPc(entry_point[m])
  /\ ops \in 0..MaxOps
  /\ last_update_time_ns_ \in 0..MaxOps
  /\ fine \in BOOLEAN
  /\ lock_ \in Threads \cup {NULL}
  /\ phase \in [Threads -> {"out", "locked", "waiting", "scoped", "put", "written", "done"}]
  /\ prot \in {kProtCode, kProtAll}
  /\ ~fine => lock_ = NULL /\ prot = kProtCode /\ pure_call = NoPureCall


\* ================================================================ claims
\* The step that ends a sweeping cycle (the last critical section of
\* GarbageCollectCache).
SweepStep == cycle.kind = "sweep" /\ ~cycle.done /\ cycle'.done

\* A sweeping cycle has ended and no other has started.
SweepDone == cycle.kind = "sweep" /\ cycle.done

\* C1: in a cycle that marks and sweeps, no entry whose code a stack walk of
\* the cycle's checkpoint reported is freed or erased by the sweep, and every
\* entry the sweep leaves in the map had its bit set in the live bitmap when
\* the sweep examined it.
C1_CollectorSafety ==
  [][SweepStep =>
       /\ \A c \in cycle.walked \cap DOMAIN method_code_map_ :
            /\ c \in DOMAIN method_code_map_'
            /\ FromCodeToAllocation(c) \in code_mspace_'
       /\ \A c \in DOMAIN method_code_map_' : FromCodeToAllocation(c) \in live_bitmap_.bits]_vars

\* C1 witness: a sweep has kept an entry a stack walk reported and has freed
\* another one.
C1_Witness ==
  /\ SweepDone
  /\ cycle.walked \cap DOMAIN method_code_map_ # {}
  /\ cycle.freed # {}

\* C2: every entry a stack walk marked is, after the cycle, still in the map
\* and the entry point of its method is that entry's code.
C2_MarkedEntryRestored ==
  [][SweepStep =>
       \A c \in cycle.walked \cap DOMAIN method_code_map_ :
         /\ c \in DOMAIN method_code_map_'
         /\ entry_point'[method_code_map_'[c]] = c]_vars



\* The bytes in use in the two sub-regions.
CodeBytesInUse == Cardinality(code_mspace_) * TotalSize
DataBytesInUse == Cardinality(data_mspace_) * DataSize

\* The step in which a cycle decides between growing and sweeping.
DecideStep == cycle.kind = "started" /\ cycle'.kind # "started"

\* C3: with no growth possible (current capacity equal to max_capacity_), a
\* cycle sweeps, and a sweep that found no entry on any stack and during which
\* no commit was published erases every entry and frees its code and its
\* auxiliary data: the map is empty, the only code blocks left are those of
\* commits that are not published yet, and the only data blocks left are the
\* stack maps of compilations that have not committed yet.
C3_SweepFreesUnusedEntries ==
  [][/\ (DecideStep /\ current_capacity_ = max_capacity_) => cycle'.kind = "sweep"
     /\ (SweepStep /\ current_capacity_ = max_capacity_
           /\ cycle.walked = {} /\ cycle.committed = {}) =>
          /\ DOMAIN method_code_map_' = {}
          /\ code_mspace_' = {FromCodeToAllocation(code_ptr[t]) : t \in {u \in Threads : pc[u] = "pub"}}
          /\ data_mspace_' = {stack_map_data[t] : t \in Threads} \ {NULL}]_vars

\* C3 witness: at maximal capacity a sweep has erased two entries, none was on
\* a stack, and no code is in use any more.
C3_Witness ==
  /\ SweepDone
  /\ current_capacity_ = max_capacity_
  /\ Cardinality(cycle.freed) = 2
  /\ cycle.walked = {}
  /\ DOMAIN method_code_map_ = {}
  /\ CodeBytesInUse = 0

\* C4 as stated: the first cycle of a fresh cache whose capacity is below
\* max_capacity_ grows and does not sweep.
C4_FirstCycleGrows ==
  [][(DecideStep /\ Len(cycle.log) = 0 /\ current_capacity_ < max_capacity_) =>
       (cycle'.kind = "grow" /\ current_capacity_' > current_capacity_)]_vars

\* C4 amended: the first cycle marks and sweeps and leaves the capacity alone;
\* the second cycle, when the capacity is below max_capacity_, grows it and
\* allocates no bitmap; a cycle that runs at maximal capacity sweeps.
C4_FirstCycleSweeps ==
  [][DecideStep =>
       /\ Len(cycle.log) = 0 =>
            /\ cycle'.kind = "sweep"
            /\ live_bitmap_'.allocated
            /\ current_capacity_' = current_capacity_
       /\ (Len(cycle.log) = 1 /\ current_capacity_ < max_capacity_) =>
            /\ cycle'.kind = "grow"
            /\ ~live_bitmap_'.allocated
            /\ current_capacity_' > current_capacity_
       /\ current_capacity_ = max_capacity_ => cycle'.kind = "sweep"]_vars

\* C4 witness: a first cycle has swept, a second has grown the capacity to
\* the maximum.
C4_Witness ==
  /\ cycle.log = <<"sweep", "grow">>
  /\ cycle.done
  /\ current_capacity_ = max_capacity_

\* C5: a call of ReserveData or CommitCode makes at most two allocation
\* attempts and calls GarbageCollectCache at most once, after its first
\* attempt failed; when the second attempt fails the call returns null
\* (JitCompile then gives up: it returns false, after ClearData when it was
\* CommitCode that failed).
C5_AtMostOneRetry ==
  [][\A t \in Threads :
       /\ pc[t] \in {"rd1", "cc1"} => attempts[t] = 0 /\ gc_calls[t] = 0
       /\ pc[t] \in {"rd2", "cc2"} => attempts[t] = 1 /\ gc_calls[t] = 1
       /\ (pc[t] \in {"gc_start", "gc_wait", "gc_decide", "gc_reset", "gc_checkpoint",
                      "gc_barrier", "gc_sweep"} /\ ret[t] \in {"rd2", "cc2"}) =>
            attempts[t] = 1 /\ gc_calls[t] = 1
       /\ (pc[t] = "rd2" /\ pc'[t] # "rd2" /\ ~crashed') =>
            \/ stack_map_data'[t] # NULL /\ pc'[t] = "cc1"
            \/ pc'[t] = "idle" /\ result'[t] = 0 /\ data_mspace_' = data_mspace_
       /\ (pc[t] = "cc2" /\ pc'[t] # "cc2" /\ ~crashed') =>
            \/ code_ptr'[t] # NULL /\ pc'[t] = "pub"
            \/ pc'[t] = "clear" /\ code_mspace_' = code_mspace_
                /\ current_capacity_' = current_capacity_]_vars

\* C5 witness: at maximal capacity a CommitCode has failed twice, with one
\* collection between the attempts, and JitCompile is about to give up.
C5_Witness ==
  \E t \in Threads :
    /\ pc[t] = "clear"
    /\ attempts[t] = 2
    /\ gc_calls[t] = 1
    /\ current_capacity_ = max_capacity_

\* C6: the bytes in use in the code sub-region plus those in the data
\* sub-region never exceed current_capacity_, which never exceeds
\* max_capacity_.
C6_CapacityInvariant ==
  /\ CodeBytesInUse + DataBytesInUse <= current_capacity_
  /\ current_capacity_ <= max_capacity_

\* C6 witness: after a growth both sub-regions are full.
C6_Witness ==
  /\ CodeBytesInUse + DataBytesInUse = current_capacity_
  /\ "grow" \in Range(cycle.log)

\* C7: every key of the map is the code of a block that is allocated in the
\* code sub-region (so no two entries share an address), and a commit that is
\* about to put its entry in the map holds an allocated block that is not in
\* the map yet; a step erases exactly the entries whose blocks it frees.
C7_Owned ==
  /\ \A c \in DOMAIN method_code_map_ : FromCodeToAllocation(c) \in code_mspace_
  /\ \A t \in Threads : pc[t] = "pub" =>
       /\ FromCodeToAllocation(code_ptr[t]) \in code_mspace_
       /\ code_ptr[t] \notin DOMAIN method_code_map_
  /\ \A t, u \in Threads : (pc[t] = "pub" /\ pc[u] = "pub" /\ t # u) => code_ptr[t] # code_ptr[u]

C7_CatalogOwnsAllocations ==
  /\ []C7_Owned
  /\ [][DOMAIN method_code_map_ \ DOMAIN method_code_map_'
         = {a + HeaderSize : a \in code_mspace_ \ code_mspace_'}]_vars

\* C7 witness: an entry was erased by a sweep and another entry is in the map.
C7_Witness ==
  /\ SweepDone
  /\ cycle.freed # {}
  /\ DOMAIN method_code_map_ # {}


\* The step in which a call of AddProfilingInfo for m returns.
ProfilingReturn(t, m) == pc[t] \in {"pi1", "pi2"} /\ method[t] = m /\ pc'[t] = "idle"

\* C8 as stated: a call of AddProfilingInfo for a unit for which an earlier
\* call returned, with no sweeping collection and no RemoveMethodsIn of the
\* unit since, returns what the earlier call returned, allocates nothing and
\* leaves the profiling list alone.
C8_SecondCallSame ==
  [][\A t \in Threads, m \in Methods :
       (ProfilingReturn(t, m) /\ returned_info[m] # NoCall) =>
         /\ result'[t] = returned_info[m]
         /\ data_mspace_' = data_mspace_
         /\ profiling_infos_' = profiling_infos_]_vars

\* C8 amended: the same, when the earlier call returned a record (not null).
C8_SecondCallSameRecord ==
  [][\A t \in Threads, m \in Methods :
       (ProfilingReturn(t, m) /\ returned_info[m] \notin {NoCall, NULL}) =>
         /\ result'[t] = returned_info[m]
         /\ data_mspace_' = data_mspace_
         /\ profiling_infos_' = profiling_infos_]_vars

\* C8 witness: two threads called AddProfilingInfo for one unit and both hold
\* the unit's one record.
C8_Witness ==
  \E m \in Methods : \E t, u \in Threads :
    /\ t # u
    /\ pc[t] = "idle" /\ pc[u] = "idle"
    /\ returned_info[m] \in DOMAIN info_method
    /\ result[t] = returned_info[m]
    /\ result[u] = returned_info[m]
    /\ profiling_info[m] = returned_info[m]
    /\ Len(profiling_infos_) = 1

\* The positions at which a thread is about to allocate.
Allocating == {"rd1", "rd2", "cc1", "cc2", "pi1", "pi2"}

\* C9: no step allocates from the code or the data allocator, or makes an
\* allocation attempt, while collection_in_progress_ is true; a thread that is
\* about to allocate stays where it is while the flag is true.
C9_NoAllocationDuringCollection ==
  [][collection_in_progress_ =>
       /\ code_mspace_' \subseteq code_mspace_
       /\ data_mspace_' \subseteq data_mspace_
       /\ \A t \in Threads : attempts'[t] <= attempts[t]
       /\ \A t \in Threads : (pc[t] \in Allocating /\ ~crashed') => pc'[t] = pc[t]]_vars

\* C9 witness: a request has arrived during a cycle and waits.
C9_Witness ==
  /\ collection_in_progress_
  /\ \E t \in Threads : pc[t] \in {"rd1", "cc1", "pi1"} /\ attempts[t] = 0
  /\ \E t \in Threads : pc[t] = "gc_sweep"

\* The steps of thread t that the scheduler runs (the calls a thread starts,
\* Enter, Leave and RemoveMethodsIn are the environment's choice).
ThreadStep(t) ==
  \/ ReserveData(t)
  \/ CommitCodeInternal(t)
  \/ Publish(t)
  \/ ClearData(t)
  \/ AddProfilingInfoInternal(t)
  \/ GcStart(t)
  \/ GcWait(t)
  \/ GcDecide(t)
  \/ GcReset(t)
  \/ RunCheckpoint(t)
  \/ MarkCodeClosureRun(t)
  \/ BarrierWait(t)
  \/ Sweep(t)

\* Fair scheduling: a thread that can take a step eventually takes one.
FairSpec == Spec /\ \A t \in Threads : WF_vars(ThreadStep(t))

\* C10: under fair scheduling every collection cycle eventually clears
\* collection_in_progress_, and every thread that waits to allocate
\* eventually makes its attempt.
C10_CollectionCompletes ==
  /\ collection_in_progress_ ~> ~collection_in_progress_
  /\ \A t \in Threads : \A n \in 0..1 :
       (pc[t] \in Allocating /\ attempts[t] = n) ~> (attempts[t] = n + 1 \/ pc[t] = "idle")


\* The units that own an entry of the map.
Owners == {method_code_map_[c] : c \in DOMAIN method_code_map_}

\* C15: a unit that was not removed by RemoveMethodsIn never has an entry
\* point that refers to freed code: its entry point is the interpreter bridge
\* or the code of an entry of the map whose block is allocated; when the sweep
\* frees an entry the owner's entry point is not that entry's code (the
\* DCHECK_NE of the sweep holds), and after the sweep it is the bridge or the
\* code of an entry still in the map.
C15_Live ==
  \A m \in Methods \ unloaded :
    \/ entry_point[m] = Bridge
    \/ /\ entry_point[m] \in DOMAIN method_code_map_
       /\ entry_point[m] - HeaderSize \in code_mspace_

C15_EntryPointNeverFreed ==
  /\ []C15_Live
  /\ [][SweepStep =>
          /\ "dcheck_entry_point" \notin faults'
          /\ \A c \in cycle'.freed : method_code_map_[c] \notin unloaded =>
               /\ entry_point[method_code_map_[c]] # c
               /\ entry_point'[method_code_map_[c]] # c
          /\ \A m \in Methods \ unloaded :
               entry_point'[m] = Bridge \/ entry_point'[m] \in DOMAIN method_code_map_']_vars

\* C15 witness: a sweep has freed the entry of a unit, whose entry point is
\* the bridge now, and has given another unit its compiled code back.
C15_Witness ==
  /\ SweepDone
  /\ cycle.freed # {}
  /\ \E m \in Methods \ unloaded : entry_point[m] = Bridge /\ m \notin Owners
  /\ \E m \in Methods \ unloaded : entry_point[m] \in DOMAIN method_code_map_

\* The steps in which JitCompile gives up.
CommitFails(t) == pc[t] = "cc2" /\ pc'[t] = "clear"
ClearStep(t) == pc[t] = "clear" /\ pc'[t] = "idle"
ReserveFails(t) == pc[t] \in {"rd1", "rd2"} /\ pc'[t] = "idle"

\* C16: when CommitCode returns null after its retry, JitCompile calls
\* ClearData, which frees the reserved stack-map block (allocated until then,
\* so it is freed once), and returns false; neither step adds an entry to the
\* map or changes an entry point; when ReserveData returns null JitCompile
\* returns false without calling CommitCode.
C16_SilentFallback ==
  [][\A t \in Threads :
       /\ CommitFails(t) =>
            /\ stack_map_data[t] \in data_mspace_'
            /\ method_code_map_' = method_code_map_
            /\ entry_point' = entry_point
       /\ ClearStep(t) =>
            /\ stack_map_data[t] \in data_mspace_
            /\ data_mspace_' = data_mspace_ \ {stack_map_data[t]}
            /\ Cardinality({u \in Threads : stack_map_data[u] = stack_map_data[t]}) = 1
            /\ \A c \in DOMAIN headers : stack_map_data[t] \notin FreeCodeData(c, headers[c])
            /\ faults' = faults
            /\ result'[t] = 0
            /\ method_code_map_' = method_code_map_
            /\ entry_point' = entry_point
       /\ ReserveFails(t) =>
            /\ result'[t] = 0
            /\ attempts[t] + 1 = attempts'[t]
            /\ code_mspace_' = code_mspace_
            /\ data_mspace_' = data_mspace_
            /\ method_code_map_' = method_code_map_
            /\ entry_point' = entry_point
       /\ (pc[t] # "cc1" /\ pc'[t] = "cc1") => (pc[t] \in {"rd1", "rd2"} /\ stack_map_data'[t] # NULL)]_vars

\* C16 witness: CommitCode has failed twice and JitCompile is about to free
\* the stack maps it reserved; the method has no entry and runs in the
\* interpreter.
C16_Witness ==
  \E t \in Threads :
    /\ pc[t] = "clear"
    /\ attempts[t] = 2
    /\ gc_calls[t] = 1
    /\ stack_map_data[t] \in data_mspace_
    /\ entry_point[method[t]] = Bridge
    /\ method[t] \notin Owners


\* The step of RemoveMethodsIn and the scope it removes.
RemoveStep == unloaded' # unloaded
Scope == unloaded' \ unloaded

\* The auxiliary data blocks an entry's header refers to.
AuxData(c) ==
  {c - off : off \in {headers[c].mapping_table_offset_, headers[c].vmap_table_offset_,
                      headers[c].gc_map_offset_} \ {0}}

\* The effect of RemoveMethodsIn on the map, the profiling list and the blocks.
C17_Frame ==
  RemoveStep =>
    LET gone == {c \in DOMAIN method_code_map_ : method_code_map_[c] \in Scope}
        recs == {i \in Range(profiling_infos_) : info_method[i] \in Scope}
    IN
    /\ method_code_map_' = [c \in DOMAIN method_code_map_ \ gone |-> method_code_map_[c]]
    /\ headers' = [c \in DOMAIN headers \ gone |-> headers[c]]
    /\ code_mspace_' = code_mspace_ \ {c - HeaderSize : c \in gone}
    /\ data_mspace_' = data_mspace_ \ (recs \cup UNION {AuxData(c) : c \in gone})
    /\ profiling_infos_' = SelectSeq(profiling_infos_, LAMBDA i : i \notin recs)
    /\ \A m \in Scope : profiling_info'[m] = NULL
    /\ \A m \in Methods \ Scope : /\ profiling_info'[m] = profiling_info[m]
                                  /\ entry_point'[m] = entry_point[m]
    /\ "invalid_free" \notin faults'

\* C17: RemoveMethodsIn erases exactly the entries whose unit is in the scope
\* and frees their code and their auxiliary data; it takes from the profiling
\* list exactly the records whose unit is in the scope, detaches and frees
\* them; the entries, records, entry points and profiling pointers of the
\* other units, and every other block, are unchanged; and the thread widened
\* the protection of the code region once in the critical section, before
\* the batch, and has not widened it again when it leaves the scope.
C17_RemoveMethodsIn ==
  /\ [][C17_Frame]_vars
  /\ [][RemoveStep =>
          \E t \in Threads :
            /\ lock_ = t /\ phase[t] = "scoped" /\ phase'[t] = "written"
            /\ prot = kProtAll /\ mprotects[t] = 1]_vars
  /\ [][\A t \in Threads :
          pc[t] = "idle" /\ phase[t] = "written" /\ phase'[t] = "done" =>
            mprotects'[t] = 1 /\ scope_depth'[t] = 0]_vars

\* C17 witness: one call of RemoveMethodsIn has removed the entries of two
\* units (their stale entry points still show where the code was) and the
\* thread, still in the scope, has widened the protection once.
C17_Witness ==
  \E t \in Threads :
    /\ pc[t] = "idle" /\ phase[t] = "written" /\ mprotects[t] = 1
    /\ ops = MaxSectionOps
    /\ unloaded = Methods
    /\ DOMAIN method_code_map_ = {}
    /\ code_mspace_ = {}
    /\ \A m \in Methods : ContainsPc(entry_point[m])
    /\ \A m1, m2 \in Methods : entry_point[m1] = entry_point[m2] => m1 = m2

\* C18: the profiling list holds at most one record per unit; a unit's
\* profiling pointer is null or a record of the list that the unit owns and
\* that is allocated; every record of the list is allocated; a sweep leaves
\* the list empty and has freed every record that was in it.
C18_Attached ==
  /\ \A i, j \in 1..Len(profiling_infos_) :
       info_method[profiling_infos_[i]] = info_method[profiling_infos_[j]] => i = j
  /\ Range(profiling_infos_) \subseteq data_mspace_
  /\ \A m \in Methods :
       \/ profiling_info[m] = NULL
       \/ /\ profiling_info[m] \in Range(profiling_infos_)
          /\ info_method[profiling_info[m]] = m
          /\ profiling_info[m] \in data_mspace_

C18_ProfilingRecords ==
  /\ []C18_Attached
  /\ [][SweepStep =>
          /\ profiling_infos_' = <<>>
          /\ Range(profiling_infos_) \cap data_mspace_' = {}
          /\ \A m \in Methods : profiling_info'[m] = NULL
          /\ "dcheck_profiling_info" \notin faults']_vars

\* C18 witness: a sweep has freed the record of a unit whose entry survived.
C18_Witness ==
  /\ SweepDone
  /\ profiling_infos_ = <<>>
  /\ \E m \in Owners : returned_info[m] = NoCall /\ m \notin unloaded
  /\ \E t \in Threads : result[t] >= DataMapBegin /\ result[t] \notin data_mspace_

\* C20: a Commit that publishes its entry while collection_in_progress_ is
\* true finds the live bitmap allocated and sets the entry's bit, and the
\* sweep of that cycle does not free the entry.
C20_PublishDuringCollection ==
  [][/\ \A t \in Threads :
          (pc[t] = "pub" /\ pc'[t] # "pub" /\ collection_in_progress_) =>
            /\ live_bitmap_.allocated
            /\ ~crashed'
            /\ Test(live_bitmap_', FromCodeToAllocation(code_ptr[t]))
     /\ SweepStep => \A c \in cycle.committed : c \in DOMAIN method_code_map_']_vars

\* A commit has put its entry in the map and has not yet rewritten the entry
\* point of the method.
HalfPublished(t) ==
  /\ pc[t] = "pub"
  /\ code_ptr[t] \in DOMAIN method_code_map_
  /\ entry_point[method[t]] # code_ptr[t]

\* C11: a commit puts its entry in the map and rewrites the entry point in one
\* critical section of lock_: while the entry is in the map and the entry
\* point is not yet rewritten the committing thread holds lock_ (so no other
\* thread holding lock_ sees that state), the entry is put with lock_ held,
\* and the step that rewrites the entry point is taken with lock_ held and
\* leaves the entry in the map.
C11_PublishedTogether ==
  /\ [](\A t \in Threads : HalfPublished(t) => lock_ = t)
  /\ [][\A t \in Threads :
          pc[t] = "pub" /\ code_ptr[t] \in DOMAIN method_code_map_' =>
            /\ lock_ = t /\ lock_' = t
            /\ pc'[t] # "pub" =>
                 /\ entry_point'[method[t]] = code_ptr[t]
                 /\ method_code_map_'[code_ptr[t]] = method[t]]_vars

\* C11 witness: a commit is between its two writes and holds lock_ while
\* another thread is at the start of a critical section.
C11_Witness ==
  \E t, u \in Threads :
    /\ t # u
    /\ HalfPublished(t) /\ lock_ = t
    /\ pc[u] \in SectionPcs /\ phase[u] = "out"

\* C12: a thread is in a ScopedCodeCacheWrite scope only while it holds
\* lock_, and in one scope at most (so no two scopes are active at once, in
\* one thread or in two); a scope is entered and left with lock_ held; and
\* when the protection of the code region goes back to read-execute no
\* scope is active.
C12_ScopesSerialized ==
  /\ [](\A t \in Threads : scope_depth[t] > 0 => lock_ = t /\ scope_depth[t] = 1)
  /\ [][\A t \in Threads : scope_depth'[t] # scope_depth[t] => lock_ = t /\ lock_' = t]_vars
  /\ [][prot = kProtAll /\ prot' = kProtCode => \A t \in Threads : scope_depth'[t] = 0]_vars

\* C12 witness: a thread is in the scope of SetFootprintLimit while another
\* thread is about to enter the critical section of a code allocation, which
\* opens a scope.
C12_Witness ==
  \E t, u \in Threads :
    /\ pc[t] = "gc_decide" /\ phase[t] = "scoped" /\ scope_depth[t] = 1 /\ lock_ = t
    /\ pc[u] \in {"cc1", "cc2"} /\ phase[u] \in {"out", "waiting"}

\* C13: whenever no thread holds lock_ the protection of the code region is
\* read-execute.
C13_ProtectionRestored == lock_ = NULL => prot = kProtCode

\* C13 witness: a code allocation has failed, the thread has left the scope
\* and the critical section by the early return, and nobody holds lock_.
C13_Witness ==
  \E t \in Threads :
    /\ pc[t] = "gc_start" /\ ret[t] = "cc2" /\ attempts[t] = 1
    /\ phase[t] = "out" /\ mprotects[t] = 1
    /\ lock_ = NULL /\ prot = kProtCode

\* C14: for a pc inside the code region LookupMethodHeader returns the header
\* of the entry with the greatest start address that is at most pc when pc
\* lies within that entry's length, and null otherwise (also when pc is an
\* entry's start address, and when no start address is below pc).
C14_LookupGreatestStartAtMost ==
  pure_call.op = "LookupMethodHeader" /\ ContainsPc(pure_call.pc) =>
    LET at_most == {c \in DOMAIN method_code_map_ : c <= pure_call.pc}
    IN pure_call.result =
         IF at_most # {} /\ Contains(SetMax(at_most), pure_call.pc)
           THEN SetMax(at_most) ELSE NULL

\* Whether a message has any character.
NonEmpty(msg) == \E i \in DOMAIN msg : msg[i] # ""

ResetStep == \E t \in Threads : pc[t] = "gc_reset" /\ pc'[t] = "gc_checkpoint"
CheckpointStep == \E t \in Threads : pc[t] = "gc_checkpoint" /\ pc'[t] = "gc_barrier"
BarrierStep == \E t \in Threads : pc[t] = "gc_barrier" /\ pc'[t] = "gc_sweep"

\* Every listed ProfilingInfo is detached from its method.
Detached == \A i \in Range(profiling_infos_) : profiling_info[info_method[i]] = NULL

\* C21: in a sweeping cycle the reset gives every unit of the map the bridge
\* and detaches every listed record, and it does so before any stack is
\* walked; when the checkpoint is issued every unit of the map has the bridge
\* (or a code published during the cycle) and every listed record is
\* detached; the sweep starts only after the checkpoint, when no thread has
\* the closure still to run.
C21_ResetBeforeCheckpoint ==
  /\ [][ResetStep =>
          /\ cycle.kind = "sweep" /\ cycle.walked = {} /\ checkpoint_pending = {}
          /\ \A m \in Owners : entry_point'[m] = Bridge
          /\ \A i \in Range(profiling_infos_) : profiling_info'[info_method[i]] = NULL]_vars
  /\ [][CheckpointStep =>
          /\ \A m \in Owners : entry_point[m] = Bridge \/ entry_point[m] \in cycle.committed
          /\ Detached]_vars
  /\ [][SweepStep => checkpoint_pending = {} /\ \E t \in Threads : pc[t] = "gc_sweep"]_vars

\* C21 witness: the checkpoint is issued, a thread has the closure still to
\* run, and the units of the map have the bridge and a detached record.
C21_Witness ==
  /\ \E t \in Threads : pc[t] = "gc_barrier"
  /\ checkpoint_pending # {}
  /\ Owners # {}
  /\ profiling_infos_ # <<>>
  /\ \A m \in Owners : entry_point[m] = Bridge
  /\ Detached

\* C22: the collector passes the barrier only when every thread that was
\* asked to run the closure has run it; while the collector is at the sweep
\* no thread has the closure still to run and no stack walk marks anything.
C22_SweepAfterBarrier ==
  /\ [][BarrierStep => checkpoint_pending = {}]_vars
  /\ [](\A t \in Threads : pc[t] = "gc_sweep" => checkpoint_pending = {})
  /\ [][(\E t \in Threads : pc[t] = "gc_sweep") => cycle'.walked = cycle.walked]_vars

\* C22 witness: the collector is at the sweep after another thread, which
\* is running managed code, had its frames marked.
C22_Witness ==
  \E t, u \in Threads :
    /\ pc[t] = "gc_sweep" /\ u # t
    /\ pc[u] = "idle"
    /\ WalkStack(u) # {} /\ WalkStack(u) \subseteq cycle.walked

\* The step in which a cycle grows the capacity.
GrowStep == cycle.kind = "started" /\ cycle'.kind = "grow"

\* The positions of a collector after it decided to sweep.
SweepingPcs == {"gc_reset", "gc_checkpoint", "gc_barrier", "gc_sweep"}

\* C24: a cycle grows or collects, never both.  The step that grows the
\* capacity erases no entry, frees no block, rewrites no entry point,
\* detaches no record and allocates no bitmap, and ends the cycle; a thread
\* is in the phases of a collection only in a cycle that decided to sweep;
\* and from that decision to the end of the sweep no step changes
\* current_capacity_ or a footprint limit.
C24_GrowOrCollect ==
  /\ [][GrowStep =>
          /\ UNCHANGED <<method_code_map_, headers, code_mspace_, data_mspace_, entry_point,
                         profiling_info, profiling_infos_, live_bitmap_>>
          /\ ~live_bitmap_'.allocated
          /\ current_capacity_' > current_capacity_
          /\ cycle'.done]_vars
  /\ [](\A t \in Threads : pc[t] \in SweepingPcs => cycle.kind = "sweep" /\ ~cycle.done)
  /\ [][(cycle'.kind = "sweep" /\ (cycle.kind = "started" \/ ~cycle.done)) =>
          UNCHANGED <<current_capacity_, code_footprint_limit, data_footprint_limit>>]_vars

\* C24 witness: a cycle has grown the capacity and left an entry of the map
\* and its entry point as they were.
C24_Witness ==
  /\ cycle.kind = "grow" /\ cycle.done
  /\ \E t \in Threads : pc[t] \in {"rd2", "cc2", "pi2"} /\ attempts[t] = 1
  /\ \E m \in Owners : entry_point[m] \in DOMAIN method_code_map_

\* C25: a cycle grows exactly when has_done_one_collection_ is true and the
\* capacity is below max_capacity_; growing clears the flag and a sweep sets
\* it; a growing cycle is never the first one and always follows a sweeping
\* one; while the capacity is below max_capacity_ a cycle is of the other
\* kind than the cycle before it.
C25_GrowthAlternates ==
  /\ [][DecideStep =>
          /\ cycle'.kind = "grow" <=>
                (has_done_one_collection_ /\ current_capacity_ < max_capacity_)
          /\ (Len(cycle.log) > 0 /\ current_capacity_ < max_capacity_) =>
                cycle'.kind # cycle.log[Len(cycle.log)]]_vars
  /\ [][GrowStep => ~has_done_one_collection_']_vars
  /\ [][SweepStep => has_done_one_collection_']_vars
  /\ [](\A i \in 1..Len(cycle.log) :
          cycle.log[i] = "grow" => i > 1 /\ cycle.log[i - 1] = "sweep")

\* C25 witness: a sweeping cycle, a growing cycle and another sweeping cycle.
C25_Witness ==
  /\ cycle.log = <<"sweep", "grow", "sweep">>
  /\ cycle.done
  /\ has_done_one_collection_

\* C28: the live bitmap is allocated only in a sweeping cycle, while
\* collection_in_progress_ is true; it is allocated by a step that finds the
\* flag set and leaves it set, and the step that clears the flag leaves no
\* bitmap.
C28_BitmapOnlyInCycle ==
  /\ [](live_bitmap_.allocated =>
          collection_in_progress_ /\ cycle.kind = "sweep" /\ ~cycle.done)
  /\ [][(~live_bitmap_.allocated /\ live_bitmap_'.allocated) =>
          collection_in_progress_ /\ collection_in_progress_']_vars
  /\ [][(live_bitmap_.allocated /\ ~live_bitmap_'.allocated) =>
          collection_in_progress_ /\ SweepStep]_vars
  /\ [][(collection_in_progress_ /\ ~collection_in_progress_') =>
          ~live_bitmap_'.allocated]_vars

\* C28 witness: a sweep that examined a bitmap with bits set has ended; the
\* flag is clear and the bitmap is gone.
C28_Witness ==
  /\ SweepDone
  /\ cycle.examined # {}
  /\ ~collection_in_progress_
  /\ ~live_bitmap_.allocated

\* A thread runs a collection cycle it announced.
Collecting(at) == at \in {"gc_decide"} \cup SweepingPcs

\* C29: at most one thread runs a collection cycle, and only while
\* collection_in_progress_ is true; the flag is set only by a call of
\* GarbageCollectCache that found it clear and cleared only by the thread
\* that runs the cycle; a call that found the flag set waits, and returns
\* when the flag is clear without changing the flag, a capacity, a limit,
\* the map, an allocator or the bitmap.
C29_OneCollector ==
  /\ [](\A t, u \in Threads : Collecting(pc[t]) /\ Collecting(pc[u]) => t = u)
  /\ []((\E t \in Threads : Collecting(pc[t])) => collection_in_progress_)
  /\ [][(~collection_in_progress_ /\ collection_in_progress_') =>
          \E t \in Threads : pc[t] = "gc_start" /\ pc'[t] = "gc_decide"]_vars
  /\ [][(collection_in_progress_ /\ ~collection_in_progress_') =>
          \E t \in Threads : Collecting(pc[t]) /\ ~Collecting(pc'[t])]_vars
  /\ [][\A t \in Threads :
          /\ (pc[t] = "gc_start" /\ collection_in_progress_) =>
                pc'[t] \in {"gc_start", "gc_wait", "dead"}
          /\ (pc[t] = "gc_wait" /\ pc'[t] \notin {"gc_wait", "dead"}) =>
                /\ ~collection_in_progress_
                /\ pc'[t] = ret[t]
                /\ UNCHANGED <<cacheVars, methodVars>>]_vars

\* C29 witness: a call of GarbageCollectCache waits for the cycle another
\* thread runs.
C29_Witness ==
  \E t, u \in Threads :
    /\ pc[t] = "gc_wait"
    /\ pc[u] \in SweepingPcs
    /\ collection_in_progress_

\* C30: the DCHECK_NE of the sweep never fails: when the sweep runs, no
\* entry of the map whose bit is not set is the entry point of its unit.
C30_SweepAssertion ==
  /\ []("dcheck_entry_point" \notin faults)
  /\ [][SweepStep =>
          \A c \in DOMAIN method_code_map_ :
            ~Test(live_bitmap_, FromCodeToAllocation(c)) =>
              entry_point[method_code_map_[c]] # c]_vars

\* C30 witness: the sweep is about to run on a map in which a unit owns two
\* entries, one of them with its bit not set.
C30_Witness ==
  /\ \E t \in Threads : pc[t] = "gc_sweep"
  /\ \E c1, c2 \in DOMAIN method_code_map_ :
       /\ c1 # c2
       /\ method_code_map_[c1] = method_code_map_[c2]
       /\ ~Test(live_bitmap_, FromCodeToAllocation(c1))

Min(a, b) == IF a < b THEN a ELSE b

\* C26: current_capacity_ never decreases; a call of
\* IncreaseCodeCacheCapacity on a capacity greater than zero returns false
\* and changes neither the capacity nor a limit when the capacity equals
\* max_capacity_, and otherwise returns true and sets the capacity to
\* min(max_capacity_, 2 * old) when old is below 1 MB and to
\* min(max_capacity_, old + 1 MB) when it is not, which is greater than old.
C26_CapacityGrowth ==
  /\ [][current_capacity_' >= current_capacity_]_vars
  /\ [][(IncreaseCall /\ current_capacity_ > 0) =>
          IF current_capacity_ = max_capacity_
            THEN /\ ~pure_call'.returned
                 /\ UNCHANGED <<current_capacity_, max_capacity_, code_footprint_limit,
                                data_footprint_limit>>
            ELSE /\ pure_call'.returned
                 /\ current_capacity_' =
                      (IF current_capacity_ < 1 * MB
                         THEN Min(max_capacity_, 2 * current_capacity_)
                         ELSE Min(max_capacity_, current_capacity_ + 1 * MB))
                 /\ current_capacity_' > current_capacity_]_vars

\* C26 witness: a call on a capacity of at least 1 MB returned true with the
\* growth clamped to max_capacity_, which is less than 1 MB above the old
\* capacity.
C26_Witness ==
  /\ pure_call.op = "IncreaseCodeCacheCapacity"
  /\ pure_call.returned
  /\ pure_call.old >= 1 * MB
  /\ current_capacity_ = max_capacity_
  /\ current_capacity_ < pure_call.old + 1 * MB

\* C27: at every call of SetFootprintLimit, by the constructor and by a
\* growth, the new footprint is a multiple of two pages and both DCHECKs
\* hold; the two footprint limits are each half of current_capacity_ and sum
\* to it.
C27_FootprintLimits ==
  /\ pure_call.op \in {"JitCodeCache", "IncreaseCodeCacheCapacity"}
  /\ pure_call.new_footprint # NULL =>
       /\ pure_call.new_footprint = current_capacity_
       /\ pure_call.new_footprint % (2 * kPageSize) = 0
       /\ pure_call.dchecks
  /\ 2 * code_footprint_limit = current_capacity_
  /\ 2 * data_footprint_limit = current_capacity_
  /\ code_footprint_limit + data_footprint_limit = current_capacity_

\* C27 witness: Create was given capacities that are not multiples of two
\* pages, and a growth was clamped to the rounded max_capacity_, below twice
\* the old capacity.
C27_Witness ==
  /\ pure_call.op = "IncreaseCodeCacheCapacity"
  /\ pure_call.returned
  /\ pure_call.new_footprint = max_capacity_
  /\ max_capacity_ < 2 * pure_call.old
  /\ pure_call.initial_capacity % (2 * kPageSize) # 0
  /\ pure_call.max_capacity % (2 * kPageSize) # 0

\* C23: no mark is lost.  Every address for which a thread's
\* AtomicTestAndSet has returned is set in the bitmap from then on, no other
\* bit is ever set, and when every checkpoint has run and every commit is
\* published the bits set are exactly the allocations of the frames of all
\* stacks and of the code committed.
C23_NoMarkLost ==
  /\ \A t \in Threads : pure_call.marked[t] \subseteq live_bitmap_.bits
  /\ live_bitmap_.bits \subseteq UNION {MarkRequests(t) : t \in Threads}
  /\ (\A t \in Threads : ~Marking(t)) =>
       live_bitmap_.bits = UNION {MarkRequests(t) : t \in Threads}

\* C23 witness: all marking is over; two threads have marked different
\* addresses of one word, and an exchange has failed because the other
\* thread had changed the word in between.
C23_Witness ==
  /\ \A t \in Threads : ~Marking(t)
  /\ pure_call.exchange_failed
  /\ \E t, u \in Threads : \E a \in pure_call.marked[t], b \in pure_call.marked[u] :
       /\ t # u
       /\ a # b
       /\ WordIndex(a) = WordIndex(b)
       /\ a \notin pure_call.marked[u]
       /\ b \notin pure_call.marked[t]

\* C31: the DCHECK before each free of a ProfilingInfo in the sweep holds:
\* when the sweep runs, every record of profiling_infos_ belongs to a method
\* whose ProfilingInfo pointer is null; from the reset to the end of the
\* sweep no step attaches a record to a method or adds one to the list.
C31_SweepFreesDetachedRecords ==
  /\ []("dcheck_profiling_info" \notin faults)
  /\ [][SweepStep =>
          \A i \in Range(profiling_infos_) : profiling_info[info_method[i]] = NULL]_vars
  /\ [][(\E t \in Threads : pc[t] \in {"gc_checkpoint", "gc_barrier", "gc_sweep"}) =>
          /\ \A m \in Methods : profiling_info'[m] \in {NULL, profiling_info[m]}
          /\ Range(profiling_infos_') \subseteq Range(profiling_infos_)]_vars

\* C31 witness: the sweep is about to free a record the reset detached,
\* while a call of AddProfilingInfo waits for the collection to end.
C31_Witness ==
  /\ \E t \in Threads : pc[t] = "gc_sweep"
  /\ profiling_infos_ # <<>>
  /\ \E u \in Threads : pc[u] \in {"pi1", "pi2"} /\ profiling_info[method[u]] = NULL

GivenBlobs(given) == {given.mapping_table, given.vmap_table, given.gc_map} \ {NULL}

\* An offset of a header is right for the pointer the commit was given: the
\* difference of the addresses, which fits the uint32_t field (it is below
\* 2^32 = 4 GB, and even below max_capacity_).
OffsetOf(code, offset, blob) ==
  IF blob = NULL THEN offset = 0
  ELSE /\ offset = code - blob
       /\ offset > 0
       /\ offset \div 4 < 1 * GB
       /\ offset < max_capacity_

\* C32: each offset of a header is zero when the commit was given a null
\* pointer and otherwise the code address minus the pointer, positive and
\* below 2^32; FreeCode finds from the offsets exactly the non-null pointers
\* the commit was given and frees exactly those blocks; no step changes the
\* header of an entry that stays.
C32_HeaderOffsets ==
  /\ [](\A code \in DOMAIN headers :
          LET given == pure_call.commits[code]
              header == headers[code]
          IN
          /\ OffsetOf(code, header.mapping_table_offset_, given.mapping_table)
          /\ OffsetOf(code, header.vmap_table_offset_, given.vmap_table)
          /\ OffsetOf(code, header.gc_map_offset_, given.gc_map)
          /\ FreeCodeData(code, header) = GivenBlobs(given))
  /\ []("invalid_free" \notin faults)
  /\ [][/\ \A code \in DOMAIN headers \cap DOMAIN headers' : headers'[code] = headers[code]
         /\ \A freed \in DOMAIN headers \ DOMAIN headers' :
              /\ pure_call'.freed = GivenBlobs(pure_call.commits[freed])
              /\ data_mspace_ \ data_mspace_' = GivenBlobs(pure_call.commits[freed])]_vars

\* C32 witness: in a cache of 1 GB, FreeCode has freed the block of an entry
\* at the end of the code region whose only table was the first block of
\* the data region, while another entry stays.
C32_Witness ==
  /\ max_capacity_ = 1 * GB
  /\ pure_call.op = "FreeCode"
  /\ pure_call.freed = {DataMapBegin}
  /\ DataMapBegin \notin data_mspace_
  /\ DOMAIN headers # {}

\* Every block the cache will free is allocated and has one owner: the
\* tables of the entries of the map, the records of profiling_infos_ and the
\* blocks reserved by calls of JitCompile in progress are different blocks
\* of the data allocator.
C33_OneOwner ==
  /\ \A c \in DOMAIN method_code_map_ : AuxData(c) \subseteq data_mspace_
  /\ \A c1, c2 \in DOMAIN method_code_map_ : c1 # c2 => AuxData(c1) \cap AuxData(c2) = {}
  /\ \A i \in 1..Len(profiling_infos_) :
       /\ profiling_infos_[i] \in data_mspace_
       /\ \A j \in 1..Len(profiling_infos_) : i # j => profiling_infos_[i] # profiling_infos_[j]
       /\ \A c \in DOMAIN method_code_map_ : profiling_infos_[i] \notin AuxData(c)
  /\ \A t \in Threads :
       stack_map_data[t] # NULL =>
         /\ stack_map_data[t] \in data_mspace_
         /\ stack_map_data[t] \notin Range(profiling_infos_)
         /\ \A c \in DOMAIN method_code_map_ : stack_map_data[t] \notin AuxData(c)
         /\ \A u \in Threads \ {t} : stack_map_data[u] # stack_map_data[t]

\* C33: no call of mspace_free, by the sweep, by RemoveMethodsIn or by
\* ClearData, is given a block that is not allocated or a block it was given
\* before, in any interleaving; every block that will be freed has one
\* owner.
C33_NoDoubleFree ==
  /\ []("invalid_free" \notin faults)
  /\ []C33_OneOwner

\* C33 witness: RemoveMethodsIn has freed a record between the reset and
\* the sweep of a cycle, and the sweep is about to free an entry that is left
\* in the map.
C33_Witness ==
  /\ \E t \in Threads : pc[t] = "gc_sweep"
  /\ cycle.removed # {}
  /\ \E c \in DOMAIN method_code_map_ : ~Test(live_bitmap_, FromCodeToAllocation(c))
  /\ \E u \in Threads : result[u] >= DataMapBegin /\ result[u] \notin data_mspace_

\* C34: no method owns more than one entry of method_code_map_.
C34_OneEntryPerUnit ==
  \A c1, c2 \in DOMAIN method_code_map_ :
    method_code_map_[c1] = method_code_map_[c2] => c1 = c2

\* ------------------------------------------------------------ C35: waiting
\* ScopedThreadSuspension sts(self, kSuspended): the critical sections a
\* thread runs in the suspended state.
ScopedThreadSuspension(at) ==
  at \in {"rd1", "rd2", "cc1", "cc2", "pi1", "pi2", "gc_start", "gc_wait"}

\* A thread that waits for lock_ at the start of a critical section.
BlockedOnLock(t) ==
  fine /\ phase[t] = "out" /\ pc[t] \in SectionPcs /\ lock_ \notin {NULL, t}

\* A thread that sleeps on lock_cond_.
WaitingOnCond(t) == fine /\ phase[t] = "waiting"

\* The stack walk a thread has to do and cannot start: lock_ is taken.
BlockedInWalk(t) ==
  /\ fine /\ phase[t] = "out" /\ lock_ # NULL
  /\ \/ /\ pc[t] = "gc_checkpoint"
        /\ WalkLocks(UNION {WalkStack(u) : u \in {t} \cup {v \in Threads : ~Runnable(v)}})
     \/ /\ pc[t] = "idle"
        /\ t \in checkpoint_pending
        /\ WalkLocks(WalkStack(t))

\* The thread that runs the collection in progress.
Collectors == {t \in Threads : Collecting(pc[t])}

\* A thread that cannot go on by itself, and the threads it waits for.
Stuck(t) ==
  \/ BlockedOnLock(t)
  \/ (lock_ = t /\ phase[t] = "out" /\ pc[t] \in SectionPcs)
  \/ BlockedInWalk(t)
  \/ (WaitingOnCond(t) /\ (collection_in_progress_ \/ lock_ # NULL))
  \/ (pc[t] = "gc_barrier" /\ checkpoint_pending # {})

WaitsFor(t) ==
  IF pc[t] = "gc_barrier" THEN checkpoint_pending
  ELSE IF WaitingOnCond(t) /\ collection_in_progress_ THEN Collectors
  ELSE {lock_}

\* A set of threads each of which waits for threads of the set only.
Deadlocked(D) == D # {} /\ \A t \in D : Stuck(t) /\ WaitsFor(t) \subseteq D

\* A thread that has something left to do: it is in a call, in a critical
\* section, or was asked to run the checkpoint.
Busy(t) == pc[t] \notin {"idle", "dead"} \/ phase[t] # "out" \/ t \in checkpoint_pending

\* The steps that take a busy thread on.
LockStep(t) ==
  \/ ThreadStep(t)
  \/ \E alloc \in SUBSET Methods : RemoveMethodsIn(t, alloc)
  \/ Begin(t) \/ CondWait(t) \/ Wake(t) \/ ScopeEnter(t) \/ PublishPut(t)
  \/ ScopeExit(t) \/ Release(t)

\* The collector holds no lock while it issues the checkpoint and waits on
\* the barrier.
CollectorUnlocked ==
  \A t \in Threads : pc[t] \in {"gc_checkpoint", "gc_barrier"} /\ phase[t] = "out" => lock_ # t

\* C35 as claimed: the collector holds no lock at the checkpoint and the
\* barrier, every thread blocked on lock_ or on lock_cond_ is in the
\* suspended state, and no set of threads is deadlocked.
C35_BlockedThreadsSuspended ==
  /\ CollectorUnlocked
  /\ \A t \in Threads : BlockedOnLock(t) \/ WaitingOnCond(t) => ScopedThreadSuspension(pc[t])
  /\ \A D \in SUBSET Threads : ~Deadlocked(D)

\* C35: the cache never deadlocks.  The collector holds no lock while it
\* issues the checkpoint and waits on the barrier; every thread that sleeps on
\* lock_cond_ is in the suspended state and is not one the collector waits
\* for; the holder of lock_ waits for nothing; no set of threads waits for
\* itself; and every busy thread that is not waiting has a step to take.
\* (A thread blocked on lock_ may be runnable: the publication of a commit,
\* ClearData, RemoveMethodsIn and the collector's own sections take lock_ in
\* the runnable state.)
C35_NoDeadlock ==
  ~crashed =>
    /\ CollectorUnlocked
    /\ \A t \in Threads : WaitingOnCond(t) =>
         ScopedThreadSuspension(pc[t]) /\ t \notin checkpoint_pending
    /\ \A t \in Threads : lock_ = t => ~Stuck(t)
    /\ \A D \in SUBSET Threads : ~Deadlocked(D)
    /\ \A t \in Threads : Busy(t) /\ ~Stuck(t) => ENABLED LockStep(t)

\* The collector waits on the barrier for a runnable thread that is in the
\* middle of a commit and has to take lock_ to publish it.
C35_Witness ==
  \E t, u \in Threads :
    /\ fine /\ pc[t] = "gc_barrier" /\ u \in checkpoint_pending
    /\ pc[u] = "pub" /\ phase[u] = "out"

\* ------------------------------------------------------ C36: bitmap range
\* An address the bitmap of the cycle covers.
HasAddress(a) == CodeMapBegin <= a /\ a < cycle.heap_limit

\* The addresses a cycle sets or tests: those of the frames a walk marks, of
\* the entries the sweep tests, and of the commits that are published.
CycleAddresses ==
  {FromCodeToAllocation(c) :
     c \in DOMAIN method_code_map_ \cup UNION {WalkStack(t) : t \in Threads}
           \cup {code_ptr[t] : t \in {u \in Threads : pc[u] = "pub"}}}

\* C36: the allocation address of every entry, of every frame a walk marks
\* and of every commit about to be published lies inside the code footprint,
\* which is current_capacity_ / 2; while the cycle has a bitmap, its range
\* ends at that footprint and every bit that is set and every address a walk,
\* a publication or the sweep can set or test lies inside the range.
C36_AddressesInRange ==
  /\ \A a \in CycleAddresses : CodeMapBegin <= a /\ a < CodeMapBegin + code_footprint_limit
  /\ live_bitmap_.allocated =>
       /\ cycle.heap_limit = CodeMapBegin + current_capacity_ \div 2
       /\ \A a \in live_bitmap_.bits \cup CycleAddresses : HasAddress(a)

\* The sweep is about to test the entries of a cache whose capacity is below
\* the maximum (the bitmap is shorter than the code region), after a walk or a
\* publication has set a bit.
C36_Witness ==
  /\ \E t \in Threads : pc[t] = "gc_sweep"
  /\ current_capacity_ < max_capacity_
  /\ cycle.heap_limit < CodeMapEnd
  /\ live_bitmap_.bits # {}
  /\ DOMAIN method_code_map_ # {}

\* ------------------------------------------------ C37: a commit that fails
\* A step in which the code allocation of CommitCodeInternal fails, in the
\* first call or in the retry.
AllocationFails(t) ==
  pc[t] \in {"cc1", "cc2"} /\ attempts'[t] = attempts[t] + 1 /\ pc'[t] # "pub"

\* C37: the step in which CommitCodeInternal's code allocation fails returns
\* null (no code pointer; CommitCode goes on to collect or returns null to
\* JitCompile) and leaves the map, the headers, every entry point, the live
\* bitmap, the list of ProfilingInfos, both mspaces and last_update_time_ns_
\* as they were; the table the caller passed in is still allocated and still
\* the caller's.
C37_FailedCommitChangesNothing ==
  [][\A t \in Threads : AllocationFails(t) =>
       /\ code_ptr'[t] = NULL
       /\ pc'[t] = IF pc[t] = "cc1" THEN "gc_start" ELSE "clear"
       /\ UNCHANGED <<method_code_map_, headers, entry_point, live_bitmap_, profiling_infos_,
                      info_method, profiling_info, code_mspace_, code_end_, data_mspace_,
                      data_end_, last_update_time_ns_, collection_in_progress_>>
       /\ stack_map_data'[t] = stack_map_data[t]
       /\ stack_map_data[t] \in data_mspace_']_vars

\* The retry of a commit has failed, with entries in the map, a ProfilingInfo
\* in the list and an earlier update of last_update_time_ns_; the caller's
\* table is allocated.
C37_Witness ==
  \E t \in Threads :
    /\ pc[t] = "clear" /\ attempts[t] = 2
    /\ stack_map_data[t] \in data_mspace_
    /\ DOMAIN method_code_map_ # {}
    /\ last_update_time_ns_ > 0

\* ------------------------------------------- C38: AddProfilingInfo's retry
\* Thread t is in the collection its AddProfilingInfo called for.
ProfilingCollects(t) == pc[t] \in {"gc_start", "gc_wait"} \cup {"gc_decide"} \cup SweepingPcs
                        /\ ret[t] = "pi2"

\* C38: a call of AddProfilingInfo calls GarbageCollectCache at most once:
\* only from its first attempt, only when that attempt found no record and
\* could not allocate one, and only when retry_allocation is true.  With
\* retry_allocation false the first attempt is the only one and its failure
\* returns null; a first attempt that finds a record returns it; the second
\* attempt always returns.  No step of the attempts themselves starts a
\* collection.
C38_CollectsOnceIfAsked ==
  [][\A t \in Threads :
       /\ pc[t] = "pi1" => attempts[t] = 0 /\ gc_calls[t] = 0
       /\ pc[t] = "pi2" \/ ProfilingCollects(t) =>
            attempts[t] = 1 /\ gc_calls[t] = 1 /\ retry_allocation[t]
       /\ (pc[t] \in {"pi1", "pi2"} /\ pc'[t] # pc[t] /\ ~crashed') =>
            /\ collection_in_progress_' = collection_in_progress_
            /\ pc'[t] \in {"idle", "gc_start"}
            /\ pc'[t] = "gc_start" =>
                 /\ pc[t] = "pi1" /\ retry_allocation[t]
                 /\ profiling_info[method[t]] = NULL
                 /\ UNCHANGED <<data_mspace_, profiling_infos_, profiling_info>>
                 /\ gc_calls'[t] = 1 /\ ret'[t] = "pi2"
            /\ (pc[t] = "pi1" /\ ~retry_allocation[t]) =>
                 /\ pc'[t] = "idle" /\ gc_calls'[t] = 0 /\ attempts'[t] <= 1
                 /\ data_mspace_' = data_mspace_ => result'[t] = profiling_info[method[t]]
            /\ profiling_info[method[t]] # NULL =>
                 /\ pc'[t] = "idle" /\ result'[t] = profiling_info[method[t]]
                 /\ gc_calls'[t] = gc_calls[t]
                 /\ UNCHANGED <<data_mspace_, profiling_infos_, profiling_info>>]_vars

\* A call with retry_allocation true is about to make its second attempt
\* after the one collection it called for, and the latest call for another
\* method returned null.
C38_Witness ==
  \E t \in Threads :
    /\ pc[t] = "pi2" /\ gc_calls[t] = 1 /\ retry_allocation[t]
    /\ \E m \in Methods : m # method[t] /\ returned_info[m] = NULL

====
